---- MODULE Spec2Model ----
(***************************************************************************)
(* Wayfinder: the navigation-and-command engine of src/main.rs.            *)
(*                                                                         *)
(* A String is a sequence of one-character strings, a PathBuf is the       *)
(* sequence of its components below "/", an Option is a sequence of        *)
(* length at most one.  The control loop (run_app), the blocking worker    *)
(* tasks of FsDispatcher and the result channel are modelled as they are   *)
(* in the source; the filesystem is the variable disk.                     *)
(***************************************************************************)
EXTENDS Integers, Sequences, FiniteSets, TLC

\* ------------------------------------------------------------------ bounds

\* Number of scan requests one behaviour may issue (tokens 0 .. MaxToken-1).
MaxToken == 3

\* The same for the requests that follow a command or a key of the wider
\* profiles (every command of the interpreter, counts and searches).
MaxIssue == 2

\* Number of system calls the OS may refuse in one behaviour.
MaxRefusals == 1

\* ------------------------------------------------------------------ Option

None == <<>>
Some(x) == <<x>>
IsSome(o) == Len(o) = 1
Unwrap(o) == o[1]
UnwrapOr(o, d) == IF Len(o) = 1 THEN o[1] ELSE d

\* ------------------------------------------------------------------ strings

\* Code points of the characters that occur in the model (String ordering in
\* Rust is the lexicographic order of the bytes).
Code ==
  [c \in {" ", ".", "/", "\\", "A", "B", "Z"} \cup
         {"0", "1", "2", "3", "4", "5", "6", "7", "8", "9"} \cup
         {"a", "b", "c", "d", "e", "h", "i", "k", "l", "m", "n", "o", "p",
          "r", "t", "u", "w", "z"} |->
     CASE c = " " -> 32 [] c = "." -> 46 [] c = "/" -> 47
       [] c = "0" -> 48 [] c = "1" -> 49 [] c = "2" -> 50 [] c = "3" -> 51
       [] c = "4" -> 52 [] c = "5" -> 53 [] c = "6" -> 54 [] c = "7" -> 55
       [] c = "8" -> 56 [] c = "9" -> 57
       [] c = "A" -> 65 [] c = "B" -> 66 [] c = "Z" -> 90 [] c = "\\" -> 92
       [] c = "a" -> 97 [] c = "b" -> 98 [] c = "c" -> 99 [] c = "d" -> 100
       [] c = "e" -> 101 [] c = "h" -> 104 [] c = "i" -> 105 [] c = "k" -> 107
       [] c = "l" -> 108 [] c = "m" -> 109 [] c = "n" -> 110 [] c = "o" -> 111
       [] c = "p" -> 112 [] c = "r" -> 114 [] c = "t" -> 116 [] c = "u" -> 117
       [] c = "w" -> 119 [] c = "z" -> 122]

Chars == DOMAIN Code

\* char::to_lowercase on the characters of the model.
lower_char(c) ==
  CASE c = "A" -> "a" [] c = "B" -> "b" [] c = "Z" -> "z" [] OTHER -> c

\* str::to_lowercase
to_lowercase(s) == [i \in 1..Len(s) |-> lower_char(s[i])]

\* char::is_whitespace
is_whitespace(c) == c = " "

\* char::is_ascii_digit
is_ascii_digit(c) == c \in {"0", "1", "2", "3", "4", "5", "6", "7", "8", "9"}

\* char::to_digit(10) of an ASCII digit
to_digit(c) == Code[c] - 48

\* Ord for str: a < b in the lexicographic order of the code points.
str_lt(a, b) ==
  \E i \in 1..(Len(a) + 1) :
     /\ \A j \in 1..(i - 1) : j <= Len(b) /\ a[j] = b[j]
     /\ \/ i = Len(a) + 1 /\ Len(b) > Len(a)
        \/ i <= Len(a) /\ i <= Len(b) /\ Code[a[i]] < Code[b[i]]

RECURSIVE trim_start(_)
trim_start(s) ==
  IF s # <<>> /\ is_whitespace(Head(s)) THEN trim_start(Tail(s)) ELSE s

RECURSIVE trim_end(_)
trim_end(s) ==
  IF s # <<>> /\ is_whitespace(s[Len(s)])
  THEN trim_end(SubSeq(s, 1, Len(s) - 1)) ELSE s

\* str::trim
trim(s) == trim_end(trim_start(s))

\* str::contains(&needle)
contains(s, needle) ==
  \E i \in 0..(Len(s) - Len(needle)) : SubSeq(s, i + 1, i + Len(needle)) = needle

\* String::pop (the popped character is dropped)
pop(s) == IF s = <<>> THEN s ELSE SubSeq(s, 1, Len(s) - 1)

IsPrefix(p, s) == Len(p) <= Len(s) /\ SubSeq(s, 1, Len(p)) = p

\* ------------------------------------------------------------------ filesystem

\* A path is the sequence of its components; "/" is the empty sequence.
\* A disk is a function from the paths that exist to their nodes:
\* [is_dir |-> TRUE, data |-> <<>>] or [is_dir |-> FALSE, data |-> content],
\* content the sequence of the file's bytes.
DirNode == [is_dir |-> TRUE, data |-> <<>>]
FileNode(content) == [is_dir |-> FALSE, data |-> content]

\* PathBuf::join / PathBuf::push with one normal component.
join(dir, name) == Append(dir, name)

\* Path::parent of a path other than "/".
parent(path) == SubSeq(path, 1, Len(path) - 1)

\* Path::exists and Path::is_dir
exists(d, path) == path \in DOMAIN d
is_dir(d, path) == path \in DOMAIN d /\ d[path].is_dir

\* The names fs::read_dir(dir) yields.
children(d, dir) ==
  {p[Len(p)] : p \in {q \in DOMAIN d : Len(q) = Len(dir) + 1 /\ IsPrefix(dir, q)}}

\* The disk without the paths in gone, and with the nodes of added.
disk_without(d, gone) == [p \in (DOMAIN d) \ gone |-> d[p]]
disk_with(d, path, node) ==
  [p \in (DOMAIN d) \cup {path} |-> IF p = path THEN node ELSE d[p]]

subtree(d, path) == {p \in DOMAIN d : IsPrefix(path, p)}

\* fs::rename(src, dest) where dest does not exist: rename(2).
rename_possible(d, src, dest) ==
  /\ exists(d, src)
  /\ src # <<>> /\ dest # <<>>
  /\ is_dir(d, parent(dest))
  /\ ~IsPrefix(src, dest)
  /\ ~exists(d, dest)
rename_disk(d, src, dest) ==
  LET moved == subtree(d, src)
      target(p) == dest \o SubSeq(p, Len(src) + 1, Len(p))
      kept == (DOMAIN d) \ moved
  IN [p \in kept \cup {target(q) : q \in moved} |->
        IF p \in kept THEN d[p]
        ELSE d[CHOOSE q \in moved : target(q) = p]]

\* fs::remove_file(path): unlink(2), which refuses a directory.
remove_file_possible(d, path) == exists(d, path) /\ ~d[path].is_dir
\* fs::remove_dir_all(path), which refuses a path that is no directory.
remove_dir_all_possible(d, path) == is_dir(d, path) /\ path # <<>>
remove_disk(d, path) == disk_without(d, subtree(d, path))

\* fs::create_dir(path): mkdir(2).
create_dir_possible(d, path) ==
  path # <<>> /\ ~exists(d, path) /\ is_dir(d, parent(path))
\* OpenOptions::new().create(true).write(true).open(path): an existing file is
\* opened as it is, a missing one is created empty, a directory is refused.
open_create_possible(d, path) ==
  path # <<>> /\ is_dir(d, parent(path)) /\ ~is_dir(d, path)
open_create_disk(d, path) ==
  IF exists(d, path) THEN d ELSE disk_with(d, path, FileNode(<<>>))

\* ------------------------------------------------------------------ results

Ok(v) == [ok |-> TRUE, val |-> v]
Err(e) == [ok |-> FALSE, err |-> e]

\* ------------------------------------------------------------------ read_directory

FileEntry(name, isdir) == [name |-> name, is_dir |-> isdir]

\* The comparator without to_lowercase.
sorts_after_case_sensitive(a, b) ==
  IF a.is_dir /\ ~b.is_dir THEN FALSE
  ELSE IF ~a.is_dir /\ b.is_dir THEN TRUE
  ELSE str_lt(b.name, a.name)

\* The comparator of entries.sort_by: TRUE when a sorts strictly after b.
sorts_after(a, b) ==
  IF a.is_dir /\ ~b.is_dir THEN FALSE
  ELSE IF ~a.is_dir /\ b.is_dir THEN TRUE
  ELSE str_lt(to_lowercase(b.name), to_lowercase(a.name))

\* slice::sort_by is stable: an element goes behind every element that does not
\* sort after it, in the order of arrival.
RECURSIVE insert_sorted(_, _)
insert_sorted(sorted, x) ==
  IF sorted = <<>> THEN <<x>>
  ELSE IF sorts_after(Head(sorted), x) THEN <<x>> \o sorted
  ELSE <<Head(sorted)>> \o insert_sorted(Tail(sorted), x)

\* The sorted prefix is a value of its own (bound by \in), computed once for
\* the uses insert_sorted makes of it.
RECURSIVE sort_by(_)
sort_by(seq) ==
  IF seq = <<>> THEN <<>>
  ELSE CHOOSE sorted \in {insert_sorted(prefix, seq[Len(seq)]) :
                            prefix \in {sort_by(SubSeq(seq, 1, Len(seq) - 1))}} : TRUE

\* The orders in which read_dir may deliver the children of dir.
RECURSIVE orders_of(_)
orders_of(names) ==
  IF names = {} THEN {<<>>}
  ELSE UNION {{<<n>> \o rest : rest \in orders_of(names \ {n})} : n \in names}

delivery_orders(d, dir) == orders_of(children(d, dir))

\* read_directory failing on a name whose metadata cannot be read.
read_directory_strict(d, dir, order) ==
  IF ~is_dir(d, dir) THEN Err(<<"read dir">>)
  ELSE IF \E i \in 1..Len(order) : ~exists(d, join(dir, order[i]))
  THEN Err(<<"metadata">>)
  ELSE Ok(sort_by([i \in 1..Len(order) |->
                     FileEntry(order[i], d[join(dir, order[i])].is_dir)]))

\* read_directory(dir) when read_dir delivers these names in this order: a
\* name whose metadata cannot be read (it is gone from d by then) is skipped.
read_directory(d, dir, order) ==
  IF ~is_dir(d, dir) THEN Err(<<"read dir">>)
  ELSE LET stated(name) == exists(d, join(dir, name))
           kept == SelectSeq(order, stated)
       IN Ok(sort_by([i \in 1..Len(kept) |->
                        FileEntry(kept[i], d[join(dir, kept[i])].is_dir)]))

\* ------------------------------------------------------------------ preview

PREVIEW_MAX_BYTES == 8192
PREVIEW_MAX_LINES == 80
PREVIEW_DIR_ENTRIES == 12

PreviewPane_empty == [body |-> "No file selected"]
PreviewPane_loading == [body |-> "Loading preview..."]
PreviewPane_error == [body |-> "Preview error"]

\* fs::read_dir(path): the names of the directory as the filesystem delivers
\* them, in one order.
RECURSIVE read_dir(_)
read_dir(names) ==
  IF names = {} THEN <<>>
  ELSE LET n == CHOOSE n \in names : TRUE
       IN <<n>> \o read_dir(names \ {n})

\* preview_directory(path): a row for each of the first PREVIEW_DIR_ENTRIES
\* names delivered, and whether the iterator holds another one after them.
preview_directory(d, path) ==
  IF ~is_dir(d, path) THEN Err(<<"reading directory">>)
  ELSE LET items == read_dir(children(d, path))
           taken == IF Len(items) < PREVIEW_DIR_ENTRIES THEN Len(items)
                    ELSE PREVIEW_DIR_ENTRIES
       IN Ok([body |-> IF taken = 0 THEN "Directory is empty" ELSE "rows",
              rows |-> {<<is_dir(d, join(path, items[i])), items[i]>> : i \in 1..taken},
              more |-> Len(items) > taken])

\* The byte 0x00.
NUL == "NUL"

\* content_inspector::inspect: BINARY for a NUL byte among the first 1024.
is_text_data(buffer) ==
  ~\E i \in 1..Len(buffer) : i <= 1024 /\ buffer[i] = NUL

\* str::lines(..).count(): a line for each "\n", and one for what follows
\* the last "\n" if anything does.
line_count(buffer) ==
  Cardinality({i \in 1..Len(buffer) : buffer[i] = "\n"})
    + (IF buffer # <<>> /\ buffer[Len(buffer)] # "\n" THEN 1 ELSE 0)

\* preview_file reading the file to its end.
preview_file_whole(d, entry, path) ==
  IF ~exists(d, path) \/ d[path].is_dir THEN Err(<<"opening">>)
  ELSE LET text(buffer, count) ==
             [body |-> "text", of |-> buffer,
              lines |-> IF count < PREVIEW_MAX_LINES THEN count ELSE PREVIEW_MAX_LINES,
              more |-> count > PREVIEW_MAX_LINES]
       IN CHOOSE pane \in
            { IF buffer = <<>> THEN Ok([body |-> "<empty file>"])
              ELSE IF is_text_data(buffer) THEN Ok(text(buffer, line_count(buffer)))
              ELSE Ok([body |-> "Non-text file", type |-> "Unknown type"]) :
              buffer \in {d[path].data} } : TRUE

\* preview_file(entry, path): the first PREVIEW_MAX_BYTES bytes (the buffer, a
\* value of its own, bound by \in); of a text the first PREVIEW_MAX_LINES
\* lines of the buffer and whether a line follows them, of other data the
\* label of its type.  The pane of a text is held as the buffer and the number
\* of its lines that are rendered.
preview_file(d, entry, path) ==
  IF ~exists(d, path) \/ d[path].is_dir THEN Err(<<"opening">>)
  ELSE LET data == d[path].data
           read == IF Len(data) < PREVIEW_MAX_BYTES THEN Len(data) ELSE PREVIEW_MAX_BYTES
           text(buffer, count) ==
             [body |-> "text", of |-> buffer,
              lines |-> IF count < PREVIEW_MAX_LINES THEN count ELSE PREVIEW_MAX_LINES,
              more |-> count > PREVIEW_MAX_LINES]
       IN CHOOSE pane \in
            { IF buffer = <<>> THEN Ok([body |-> "<empty file>"])
              ELSE IF is_text_data(buffer) THEN Ok(text(buffer, line_count(buffer)))
              ELSE Ok([body |-> "Non-text file", type |-> "Unknown type"]) :
              buffer \in {SubSeq(data, 1, read)} } : TRUE

build_preview(d, entry, path) ==
  IF entry.is_dir THEN preview_directory(d, path) ELSE preview_file(d, entry, path)

\* ------------------------------------------------------------------ App

\* The fields of App; the disk; the tasks the dispatcher has spawned on the
\* blocking pool (each a pending read_directory of path for token); the
\* channel fs_rx; the place of the control loop; the number of system calls the
\* OS has refused so far.
VARIABLES current_dir, entries, selected, status, pending_token, next_token,
          is_loading, input_mode, pending_count, last_search,
          last_action_message, pending_external, preview, awaiting_g,
          disk, tasks, fs_rx, pc, refusals, entries_from

app_vars == <<current_dir, entries, selected, status, pending_token, next_token,
              is_loading, input_mode, pending_count, last_search,
              last_action_message, pending_external, preview, awaiting_g>>
vars == <<app_vars, disk, tasks, fs_rx, pc, refusals, entries_from>>

\* The state the handlers of the control thread read and write.
App ==
  [current_dir |-> current_dir, entries |-> entries, selected |-> selected,
   status |-> status, pending_token |-> pending_token, next_token |-> next_token,
   is_loading |-> is_loading, input_mode |-> input_mode,
   pending_count |-> pending_count, last_search |-> last_search,
   last_action_message |-> last_action_message,
   pending_external |-> pending_external, preview |-> preview,
   awaiting_g |-> awaiting_g, disk |-> disk, tasks |-> tasks]

Normal == [mode |-> "Normal"]
Search(buffer, feedback) == [mode |-> "Search", buffer |-> buffer, feedback |-> feedback]
Command(buffer, feedback) == [mode |-> "Command", buffer |-> buffer, feedback |-> feedback]
Confirm(entry, path) ==
  [mode |-> "Confirm", message |-> entry.name, action |-> [entry |-> entry, path |-> path]]

\* Config::default().command_aliases
command_aliases ==
  [k \in {<<"r", "m">>, <<"c", "p">>, <<"m", "v">>} |->
     CASE k = <<"r", "m">> -> <<"d", "e", "l", "e", "t", "e">>
       [] k = <<"c", "p">> -> <<"c", "o", "p", "y">>
       [] k = <<"m", "v">> -> <<"m", "o", "v", "e">>]

selected_entry(a) ==
  IF a.selected < Len(a.entries) THEN Some(a.entries[a.selected + 1]) ELSE None

selected_path(a) ==
  IF a.selected < Len(a.entries)
  THEN Some(join(a.current_dir, a.entries[a.selected + 1].name)) ELSE None

\* FsDispatcher::request_directory_scan: spawn_blocking of the read; always Ok.
request_directory_scan(a, path, token) ==
  [a EXCEPT !.tasks = @ \cup {[path |-> path, token |-> token]}]

\* refresh_async leaving an earlier pending token in place.
refresh_async_first_wins(a, clear_entries) ==
  LET a1 == IF clear_entries
            THEN [a EXCEPT !.entries = <<>>, !.selected = 0,
                           !.preview = PreviewPane_loading]
            ELSE a
      token == a1.next_token
      a2 == [a1 EXCEPT !.next_token = token + 1]
      a3 == request_directory_scan(a2, a2.current_dir, token)
  IN [a3 EXCEPT !.pending_token = IF IsSome(@) THEN @ ELSE Some(token),
                !.is_loading = TRUE, !.status = <<"Loading ...">>]

\* refresh_async without the increment of next_token.
refresh_async_same_token(a, clear_entries) ==
  LET a1 == IF clear_entries
            THEN [a EXCEPT !.entries = <<>>, !.selected = 0,
                           !.preview = PreviewPane_loading]
            ELSE a
      token == a1.next_token
      a3 == request_directory_scan(a1, a1.current_dir, token)
  IN [a3 EXCEPT !.pending_token = Some(token), !.is_loading = TRUE,
                !.status = <<"Loading ...">>]

refresh_async(a, clear_entries) ==
  LET a1 == IF clear_entries
            THEN [a EXCEPT !.entries = <<>>, !.selected = 0,
                           !.preview = PreviewPane_loading]
            ELSE a
      token == a1.next_token
      a2 == [a1 EXCEPT !.next_token = token + 1]
      path == a2.current_dir
      a3 == request_directory_scan(a2, path, token)
  IN [a3 EXCEPT !.pending_token = Some(token), !.is_loading = TRUE,
                !.status = <<"Loading ...">>]

refresh_with_message(a, clear_entries, message) ==
  refresh_async([a EXCEPT !.last_action_message = Some(message)], clear_entries)

update_preview(a) ==
  IF a.is_loading THEN [a EXCEPT !.preview = PreviewPane_loading]
  ELSE IF a.entries = <<>> THEN [a EXCEPT !.preview = PreviewPane_empty]
  ELSE IF IsSome(selected_entry(a))
  THEN LET entry == Unwrap(selected_entry(a))
           path == join(a.current_dir, entry.name)
           built == build_preview(a.disk, entry, path)
       IN [a EXCEPT !.preview = IF built.ok THEN built.val ELSE PreviewPane_error]
  ELSE [a EXCEPT !.preview = PreviewPane_empty]

\* move_selection stopping at the ends of the list.
move_selection_clamped(a, delta) ==
  IF a.entries = <<>>
  THEN [a EXCEPT !.selected = 0, !.preview = PreviewPane_empty]
  ELSE LET len == Len(a.entries)
           to == a.selected + delta
           next == IF to < 0 THEN 0 ELSE IF to >= len THEN len - 1 ELSE to
       IN update_preview([a EXCEPT !.selected = next])

move_selection(a, delta) ==
  IF a.entries = <<>>
  THEN [a EXCEPT !.selected = 0, !.preview = PreviewPane_empty]
  ELSE LET len == Len(a.entries)
           next == (a.selected + delta) % len
       IN update_preview([a EXCEPT !.selected = next])

COUNT_CAP == 9999

\* accumulate_count without the cap.
accumulate_count_uncapped(a, digit) ==
  LET next == UnwrapOr(a.pending_count, 0) * 10 + to_digit(digit)
  IN [a EXCEPT !.pending_count = Some(next), !.status = <<"Count">>]

accumulate_count(a, digit) ==
  LET next == UnwrapOr(a.pending_count, 0) * 10 + to_digit(digit)
      capped == IF next < COUNT_CAP THEN next ELSE COUNT_CAP
  IN [a EXCEPT !.pending_count = Some(capped), !.status = <<"Count">>]

clear_pending_count(a) == [a EXCEPT !.pending_count = None]

move_selection_by_count(a, delta) ==
  LET count == UnwrapOr(a.pending_count, 1)
      scaled == delta * count
  IN move_selection(clear_pending_count(a), scaled)

\* jump_to_index without the clamp to the last entry.
jump_to_index_unclamped(a, index) ==
  IF a.entries = <<>>
  THEN [a EXCEPT !.selected = 0, !.preview = PreviewPane_empty]
  ELSE update_preview([a EXCEPT !.selected = index])

jump_to_index(a, index) ==
  IF a.entries = <<>>
  THEN [a EXCEPT !.selected = 0, !.preview = PreviewPane_empty]
  ELSE LET max_idx == Len(a.entries) - 1
       IN update_preview([a EXCEPT !.selected = IF index < max_idx THEN index ELSE max_idx])

jump_to_end(a) ==
  IF a.entries # <<>>
  THEN update_preview([a EXCEPT !.selected = Len(a.entries) - 1])
  ELSE a

reset_search_state(a) ==
  LET a1 == [a EXCEPT !.last_search = None]
  IN IF a1.input_mode.mode = "Search"
     THEN [a1 EXCEPT !.input_mode.buffer = <<>>] ELSE a1

\* enter_selection without reset_search_state.
enter_selection_keeps_search(a) ==
  IF IsSome(selected_entry(a))
  THEN LET entry == Unwrap(selected_entry(a))
       IN IF entry.is_dir
          THEN refresh_async([a EXCEPT !.current_dir = join(@, entry.name)], TRUE)
          ELSE [a EXCEPT !.status = <<"is not a directory">>]
  ELSE a

\* enter_selection; refresh_async cannot fail, so the rollback never runs.
enter_selection(a) ==
  IF IsSome(selected_entry(a))
  THEN LET entry == Unwrap(selected_entry(a))
       IN IF entry.is_dir
          THEN reset_search_state(
                 refresh_async([a EXCEPT !.current_dir = join(@, entry.name)], TRUE))
          ELSE [a EXCEPT !.status = <<"is not a directory">>]
  ELSE a

\* open_parent keeping the entries of the directory it leaves.
open_parent_keeps_entries(a) ==
  IF a.current_dir # <<>>
  THEN reset_search_state(
         refresh_async([a EXCEPT !.current_dir = parent(@)], FALSE))
  ELSE a

\* open_parent; PathBuf::pop is false at "/".
open_parent(a) ==
  IF a.current_dir # <<>>
  THEN reset_search_state(
         refresh_async([a EXCEPT !.current_dir = parent(@)], TRUE))
  ELSE a

start_search(a) ==
  LET a1 == clear_pending_count(a)
      buffer == UnwrapOr(a1.last_search, <<>>)
  IN [a1 EXCEPT !.input_mode = Search(buffer, None),
                !.status = <<"Search: type to filter, Enter to apply">>]

\* start_command without clear_pending_count.
start_command_keeps_count(a) ==
  [a EXCEPT !.input_mode = Command(<<>>, None),
            !.status = <<"Command: Enter to run, Esc to cancel">>]

start_command(a) ==
  [clear_pending_count(a) EXCEPT
     !.input_mode = Command(<<>>, None),
     !.status = <<"Command: Enter to run, Esc to cancel">>]

cancel_overlay(a) == clear_pending_count([a EXCEPT !.input_mode = Normal])

set_overlay_feedback(a, message) ==
  IF a.input_mode.mode \in {"Search", "Command"}
  THEN [a EXCEPT !.input_mode.feedback = Some(message)] ELSE a

\* clear_overlay_feedback leaving the feedback in place.
clear_overlay_feedback_off(a) == a

clear_overlay_feedback(a) ==
  IF a.input_mode.mode \in {"Search", "Command"}
  THEN [a EXCEPT !.input_mode.feedback = None] ELSE a

\* clamp_selection leaving selected as it is.
clamp_selection_off(a) == update_preview(a)

clamp_selection(a) ==
  update_preview(
    IF a.selected >= Len(a.entries)
    THEN [a EXCEPT !.selected = IF Len(a.entries) = 0 THEN 0 ELSE Len(a.entries) - 1]
    ELSE a)

\* handle_fs_event without the comparison of the token.
handle_fs_event_any_token(a, event) ==
  LET a1 == [a EXCEPT !.pending_token = None, !.is_loading = FALSE]
  IN IF event.result.ok
     THEN LET a2 == clamp_selection([a1 EXCEPT !.entries = event.result.val])
          IN IF IsSome(a2.last_action_message)
             THEN [a2 EXCEPT !.status = Unwrap(a2.last_action_message),
                             !.last_action_message = None]
             ELSE [a2 EXCEPT !.status = <<"Loaded entries">>]
     ELSE [a1 EXCEPT !.entries = <<>>, !.selected = 0,
                     !.last_action_message = None,
                     !.status = <<"Error loading">>]

\* handle_fs_event leaving is_loading set when it accepts a result.
handle_fs_event_keeps_loading(a, event) ==
  IF Some(event.token) # a.pending_token THEN a
  ELSE LET a1 == [a EXCEPT !.pending_token = None]
       IN IF event.result.ok
          THEN LET a2 == clamp_selection([a1 EXCEPT !.entries = event.result.val])
               IN IF IsSome(a2.last_action_message)
                  THEN [a2 EXCEPT !.status = Unwrap(a2.last_action_message),
                                  !.last_action_message = None]
                  ELSE [a2 EXCEPT !.status = <<"Loaded entries">>]
          ELSE [a1 EXCEPT !.entries = <<>>, !.selected = 0,
                          !.last_action_message = None,
                          !.status = <<"Error loading">>]

handle_fs_event(a, event) ==
  IF Some(event.token) # a.pending_token THEN a
  ELSE LET a1 == [a EXCEPT !.pending_token = None, !.is_loading = FALSE]
       IN IF event.result.ok
          THEN LET a2 == clamp_selection([a1 EXCEPT !.entries = event.result.val])
               IN IF IsSome(a2.last_action_message)
                  THEN [a2 EXCEPT !.status = Unwrap(a2.last_action_message),
                                  !.last_action_message = None]
                  ELSE [a2 EXCEPT !.status = <<"Loaded entries">>]
          ELSE [a1 EXCEPT !.entries = <<>>, !.selected = 0,
                          !.last_action_message = None,
                          !.status = <<"Error loading">>]

\* ------------------------------------------------------------------ search

\* The first index (start_index + offset) % len, offset = 0 .. len-1, whose
\* lowercased name contains the lowercased query.
find_match(a, query, start_index) ==
  IF a.entries = <<>> THEN None
  ELSE LET needle == to_lowercase(query)
           len == Len(a.entries)
           hit(offset) ==
             contains(to_lowercase(a.entries[((start_index + offset) % len) + 1].name), needle)
           hits == {offset \in 0..(len - 1) : hit(offset)}
       IN IF hits = {} THEN None
          ELSE Some((start_index + (CHOOSE o \in hits : \A o2 \in hits : o <= o2)) % len)

\* The same, stepping down from start_index % len and wrapping from 0 to len-1.
find_match_reverse(a, query, start_index) ==
  IF a.entries = <<>> THEN None
  ELSE LET needle == to_lowercase(query)
           len == Len(a.entries)
           at(step) == ((start_index % len) + len - step) % len
           hit(step) == contains(to_lowercase(a.entries[at(step) + 1].name), needle)
           hits == {step \in 0..(len - 1) : hit(step)}
       IN IF hits = {} THEN None
          ELSE Some(at(CHOOSE o \in hits : \A o2 \in hits : o <= o2))

\* search_next looking from the selection itself.
search_next_inclusive(a) ==
  IF a.entries = <<>> THEN [a EXCEPT !.status = <<"No entries to search">>]
  ELSE IF ~IsSome(a.last_search) THEN [a EXCEPT !.status = <<"No previous search">>]
  ELSE LET query == Unwrap(a.last_search)
           found == find_match(a, query, a.selected)
       IN IF IsSome(found)
          THEN update_preview([a EXCEPT !.selected = Unwrap(found), !.status = <<"Match">>])
          ELSE [a EXCEPT !.status = <<"No more matches">>]

search_next(a) ==
  IF a.entries = <<>> THEN [a EXCEPT !.status = <<"No entries to search">>]
  ELSE IF ~IsSome(a.last_search) THEN [a EXCEPT !.status = <<"No previous search">>]
  ELSE LET query == Unwrap(a.last_search)
           start == (a.selected + 1) % Len(a.entries)
           found == find_match(a, query, start)
       IN IF IsSome(found)
          THEN update_preview([a EXCEPT !.selected = Unwrap(found), !.status = <<"Match">>])
          ELSE [a EXCEPT !.status = <<"No more matches">>]

search_prev(a) ==
  IF a.entries = <<>> THEN [a EXCEPT !.status = <<"No entries to search">>]
  ELSE IF ~IsSome(a.last_search) THEN [a EXCEPT !.status = <<"No previous search">>]
  ELSE LET query == Unwrap(a.last_search)
           len == Len(a.entries)
           start == (a.selected + len - 1) % len
           found == find_match_reverse(a, query, start)
       IN IF IsSome(found)
          THEN update_preview([a EXCEPT !.selected = Unwrap(found), !.status = <<"Match">>])
          ELSE [a EXCEPT !.status = <<"No previous matches">>]

\* apply_search looking from the entry after the selection.
apply_search_exclusive(a, query) ==
  IF a.entries = <<>> THEN [a EXCEPT !.status = <<"No entries to search">>]
  ELSE LET start == (a.selected + 1) % Len(a.entries)
           a1 == [a EXCEPT !.last_search = Some(query)]
           found == find_match(a1, query, start)
       IN IF IsSome(found)
          THEN update_preview([a1 EXCEPT !.selected = Unwrap(found), !.status = <<"Match">>])
          ELSE [a1 EXCEPT !.status = <<"No match">>]

apply_search(a, query) ==
  IF a.entries = <<>> THEN [a EXCEPT !.status = <<"No entries to search">>]
  ELSE LET start == a.selected
           a1 == [a EXCEPT !.last_search = Some(query)]
           found == find_match(a1, query, start)
       IN IF IsSome(found)
          THEN update_preview([a1 EXCEPT !.selected = Unwrap(found), !.status = <<"Match">>])
          ELSE [a1 EXCEPT !.status = <<"No match">>]

\* ------------------------------------------------------------------ paths typed by the user

DotDot == <<".", ".">>
Dot == <<".">>

\* The pieces of s between the occurrences of sep.
RECURSIVE split(_, _, _)
split(s, sep, piece) ==
  IF s = <<>> THEN <<piece>>
  ELSE IF Head(s) = sep THEN <<piece>> \o split(Tail(s), sep, <<>>)
  ELSE split(Tail(s), sep, Append(piece, Head(s)))

\* Path::components of a typed path: empty pieces and "." are dropped, ".."
\* is kept.
components(s) ==
  SelectSeq(split(s, "/", <<>>), LAMBDA c : c # <<>> /\ c # Dot)

is_absolute(s) == s # <<>> /\ Head(s) = "/"

\* The lookup the kernel does for a path from "/": every component is taken
\* from an existing directory, ".." goes to the parent ("/" at "/"); the last
\* component need not exist.
RECURSIVE walk(_, _, _)
walk(d, at, comps) ==
  IF comps = <<>> THEN Ok(at)
  ELSE IF ~is_dir(d, at) THEN Err(<<"No such file or directory">>)
  ELSE IF Head(comps) = DotDot
  THEN walk(d, IF at = <<>> THEN at ELSE parent(at), Tail(comps))
  ELSE walk(d, join(at, Head(comps)), Tail(comps))

\* Path::exists / Path::is_dir of a typed path.
raw_exists(d, raw) == LET r == walk(d, <<>>, raw) IN r.ok /\ exists(d, r.val)
raw_is_dir(d, raw) == LET r == walk(d, <<>>, raw) IN r.ok /\ is_dir(d, r.val)

\* fs::canonicalize
canonicalize(d, raw) ==
  LET r == walk(d, <<>>, raw)
  IN IF r.ok /\ exists(d, r.val) THEN r ELSE Err(<<"No such file or directory">>)

\* fs::create_dir_all(raw): every missing directory on the way is created; a
\* file on the way fails it.
RECURSIVE create_dir_all(_, _, _)
create_dir_all(d, at, comps) ==
  IF ~is_dir(d, at) THEN [ok |-> FALSE, disk |-> d]
  ELSE IF comps = <<>> THEN [ok |-> TRUE, disk |-> d]
  ELSE IF Head(comps) = DotDot
  THEN create_dir_all(d, IF at = <<>> THEN at ELSE parent(at), Tail(comps))
  ELSE LET next == join(at, Head(comps))
       IN IF exists(d, next) THEN create_dir_all(d, next, Tail(comps))
          ELSE create_dir_all(disk_with(d, next, DirNode), next, Tail(comps))

\* ensure_parent_dir(path): Path::parent drops the last component.
ensure_parent_dir(d, raw) ==
  IF raw = <<>> THEN [ok |-> TRUE, disk |-> d]
  ELSE create_dir_all(d, <<>>, SubSeq(raw, 1, Len(raw) - 1))

\* fs::copy(src, dest) of a regular file.
copy_file_possible(d, src, dest) ==
  /\ exists(d, src) /\ ~d[src].is_dir
  /\ dest # <<>> /\ is_dir(d, parent(dest)) /\ ~is_dir(d, dest)

\* fs_extra::dir::copy(src, to) with copy_inside: as to exists when it is
\* called, the tree goes to to/<name of src>.
copy_dir(d, src, to) ==
  LET from == subtree(d, src)
      base == join(to, src[Len(src)])
      target(p) == base \o SubSeq(p, Len(src) + 1, Len(p))
      news == {target(q) : q \in from}
  IN [p \in (DOMAIN d) \cup news |->
        IF p \in news THEN d[CHOOSE q \in from : target(q) = p] ELSE d[p]]

\* copy_directory(src, dest).  io names the system calls the OS refuses.
copy_directory(d, src, raw_dest, io) ==
  IF raw_exists(d, raw_dest) THEN [ok |-> FALSE, disk |-> d]
  ELSE LET made == ensure_parent_dir(d, raw_dest)
           dest == walk(made.disk, <<>>, raw_dest)
       IN IF ~made.ok \/ ~dest.ok THEN [ok |-> FALSE, disk |-> made.disk]
          ELSE IF "create" \in io \/ ~create_dir_possible(made.disk, dest.val)
          THEN [ok |-> FALSE, disk |-> made.disk]
          ELSE LET d2 == disk_with(made.disk, dest.val, DirNode)
               IN IF "copy" \in io \/ ~is_dir(d2, src)
                  THEN [ok |-> FALSE, disk |-> d2]
                  ELSE [ok |-> TRUE, disk |-> copy_dir(d2, src, dest.val)]

\* ------------------------------------------------------------------ commands

\* What a fallible method returns: the App as the method left it, and the error.
Done(a) == [ok |-> TRUE, app |-> a]
Fail(a, e) == [ok |-> FALSE, app |-> a, err |-> e]

kw_pwd == <<"p", "w", "d">>
kw_refresh == <<"r", "e", "f", "r", "e", "s", "h">>
kw_q == <<"q">>
kw_quit == <<"q", "u", "i", "t">>
kw_rename == <<"r", "e", "n", "a", "m", "e">>
kw_delete == <<"d", "e", "l", "e", "t", "e">>
kw_mkdir == <<"m", "k", "d", "i", "r">>
kw_touch == <<"t", "o", "u", "c", "h">>
kw_copy == <<"c", "o", "p", "y">>
kw_move == <<"m", "o", "v", "e">>
kw_sh == <<"s", "h">>
kw_edit == <<"e", "d", "i", "t">>
kw_cd == <<"c", "d">>
kw_help == <<"h", "e", "l", "p">>

\* split_command: the word before the first whitespace, and the rest with its
\* leading whitespace removed.
split_command(input) ==
  IF \E i \in 1..Len(input) : is_whitespace(input[i])
  THEN LET i == CHOOSE k \in 1..Len(input) :
                  /\ is_whitespace(input[k])
                  /\ \A j \in 1..(k - 1) : ~is_whitespace(input[j])
       IN <<SubSeq(input, 1, i - 1), trim_start(SubSeq(input, i + 1, Len(input)))>>
  ELSE <<input, <<>>>>

resolve_command_alias(cmd) ==
  LET key == to_lowercase(cmd)
  IN IF key \in DOMAIN command_aliases THEN command_aliases[key] ELSE key

validate_new_name(input, current) ==
  LET trimmed == trim(input)
  IN IF trimmed = <<>> THEN Err(<<"Name cannot be empty">>)
     ELSE IF current # <<>> /\ trimmed = current THEN Err(<<"Name is unchanged">>)
     ELSE IF trimmed = Dot \/ trimmed = DotDot THEN Err(<<"Invalid name">>)
     ELSE IF \E i \in 1..Len(trimmed) : trimmed[i] = "/" \/ trimmed[i] = "\\"
     THEN Err(<<"Name cannot contain path separators">>)
     ELSE Ok(trimmed)

\* command_rename without the dest.exists() check.
command_rename_unchecked(a, new_name, io) ==
  IF ~IsSome(selected_entry(a)) THEN Fail(a, <<"No selection to rename">>)
  ELSE LET entry == Unwrap(selected_entry(a))
           name == validate_new_name(new_name, entry.name)
       IN IF ~name.ok THEN Fail(a, name.err)
          ELSE LET src == Unwrap(selected_path(a))
                   dest == join(a.current_dir, name.val)
               IN IF "rename" \in io \/ ~exists(a.disk, src)
                  THEN Fail(a, <<"renaming">>)
                  ELSE Done(refresh_with_message(
                              [a EXCEPT !.disk = rename_disk(remove_disk(@, dest), src, dest)],
                              TRUE, <<"Renamed">>))

command_rename(a, new_name, io) ==
  IF ~IsSome(selected_entry(a)) THEN Fail(a, <<"No selection to rename">>)
  ELSE LET entry == Unwrap(selected_entry(a))
           name == validate_new_name(new_name, entry.name)
       IN IF ~name.ok THEN Fail(a, name.err)
          ELSE LET src == Unwrap(selected_path(a))
                   dest == join(a.current_dir, name.val)
               IN IF exists(a.disk, dest) THEN Fail(a, <<"A file named already exists">>)
                  ELSE IF "rename" \in io \/ ~rename_possible(a.disk, src, dest)
                  THEN Fail(a, <<"renaming">>)
                  ELSE Done(refresh_with_message(
                              [a EXCEPT !.disk = rename_disk(@, src, dest)],
                              TRUE, <<"Renamed">>))

\* request_delete_confirmation removing the selection at once.
request_delete_confirmation_eager(a) ==
  IF ~IsSome(selected_entry(a)) THEN Fail(a, <<"No selection to delete">>)
  ELSE Done(refresh_with_message(
              [a EXCEPT !.disk = remove_disk(@, Unwrap(selected_path(a)))],
              TRUE, <<"Deleted">>))

\* request_delete_confirmation carrying the entry's name alone as the path.
request_delete_confirmation_bare(a) ==
  IF ~IsSome(selected_entry(a)) THEN Fail(a, <<"No selection to delete">>)
  ELSE LET entry == Unwrap(selected_entry(a))
       IN Done([a EXCEPT !.input_mode = Confirm(entry, <<entry.name>>),
                         !.status = <<"Confirm delete with y/n">>])

request_delete_confirmation(a) ==
  IF ~IsSome(selected_entry(a)) THEN Fail(a, <<"No selection to delete">>)
  ELSE LET entry == Unwrap(selected_entry(a))
           path == Unwrap(selected_path(a))
       IN Done([a EXCEPT !.input_mode = Confirm(entry, path),
                         !.status = <<"Confirm delete with y/n">>])

command_delete(a, captured, path, io) ==
  LET same == {i \in 1..Len(a.entries) : a.entries[i].name = captured.name}
      entry == IF same = {} THEN captured
               ELSE a.entries[CHOOSE i \in same : \A j \in same : i <= j]
      possible == IF entry.is_dir THEN remove_dir_all_possible(a.disk, path)
                  ELSE remove_file_possible(a.disk, path)
  IN IF "remove" \in io \/ ~possible THEN Fail(a, <<"removing">>)
     ELSE Done(refresh_with_message([a EXCEPT !.disk = remove_disk(@, path)],
                                    TRUE, <<"Deleted">>))

command_mkdir(a, input, io) ==
  LET name == validate_new_name(input, <<>>)
  IN IF ~name.ok THEN Fail(a, name.err)
     ELSE LET path == join(a.current_dir, name.val)
          IN IF "create" \in io \/ ~create_dir_possible(a.disk, path)
             THEN Fail(a, <<"creating directory">>)
             ELSE Done(refresh_with_message(
                         [a EXCEPT !.disk = disk_with(@, path, DirNode)],
                         FALSE, <<"Created directory">>))

command_touch(a, input, io) ==
  LET name == validate_new_name(input, <<>>)
  IN IF ~name.ok THEN Fail(a, name.err)
     ELSE LET path == join(a.current_dir, name.val)
          IN IF "create" \in io \/ ~open_create_possible(a.disk, path)
             THEN Fail(a, <<"creating file">>)
             ELSE Done(refresh_with_message(
                         [a EXCEPT !.disk = open_create_disk(@, path)],
                         FALSE, <<"Touched">>))

command_edit(a) ==
  IF ~IsSome(selected_entry(a)) THEN Fail(a, <<"No selection to edit">>)
  ELSE LET entry == Unwrap(selected_entry(a))
       IN IF entry.is_dir THEN Fail(a, <<"Cannot edit a directory">>)
          ELSE Done([a EXCEPT
                 !.pending_external = Some([cmd |-> "Edit", path |-> Unwrap(selected_path(a))]),
                 !.status = <<"Launching editor">>])

command_shell(a) ==
  Done([a EXCEPT !.pending_external = Some([cmd |-> "Shell", path |-> a.current_dir]),
                 !.status = <<"Launching shell">>])

\* command_cd forgetting the search before it looks at the target.
command_cd_forgetful(a, input) ==
  LET target == trim(input)
      b == reset_search_state(a)
  IN IF target = <<>> THEN Fail(b, <<"Usage: :cd <path>">>)
     ELSE LET raw == IF is_absolute(target) THEN components(target)
                     ELSE a.current_dir \o components(target)
              resolved == canonicalize(a.disk, raw)
          IN IF ~resolved.ok THEN Fail(b, <<"resolving directory">>)
             ELSE IF ~is_dir(a.disk, resolved.val) THEN Fail(b, <<"is not a directory">>)
             ELSE Done(refresh_with_message(
                         [b EXCEPT !.current_dir = resolved.val],
                         TRUE, <<"Changed directory">>))

command_cd(a, input) ==
  LET target == trim(input)
  IN IF target = <<>> THEN Fail(a, <<"Usage: :cd <path>">>)
     ELSE LET raw == IF is_absolute(target) THEN components(target)
                     ELSE a.current_dir \o components(target)
              resolved == canonicalize(a.disk, raw)
          IN IF ~resolved.ok THEN Fail(a, <<"resolving directory">>)
             ELSE IF ~is_dir(a.disk, resolved.val) THEN Fail(a, <<"is not a directory">>)
             ELSE Done(refresh_with_message(
                         reset_search_state([a EXCEPT !.current_dir = resolved.val]),
                         TRUE, <<"Changed directory">>))

\* compute_destination: the typed path from "/", its ".." unresolved.
compute_destination(a, target, entry_name) ==
  LET trimmed == trim(target)
  IN IF trimmed = <<>> THEN Err(<<"Destination path required">>)
     ELSE LET dest == IF is_absolute(trimmed) THEN components(trimmed)
                      ELSE a.current_dir \o components(trimmed)
              last == trimmed[Len(trimmed)]
              hint_dir == last = "/" \/ last = "\\"
          IN IF hint_dir \/ raw_is_dir(a.disk, dest)
             THEN Ok(Append(dest, entry_name)) ELSE Ok(dest)

\* The if/else of command_copy and of the fallback of command_move: the copy
\* of src to the typed destination.
copy_entry(d, entry, src, raw_dest, io) ==
  IF entry.is_dir THEN copy_directory(d, src, raw_dest, io)
  ELSE LET made == ensure_parent_dir(d, raw_dest)
           dest == walk(made.disk, <<>>, raw_dest)
       IN IF ~made.ok \/ ~dest.ok THEN [ok |-> FALSE, disk |-> made.disk]
          ELSE IF "copy" \in io \/ ~copy_file_possible(made.disk, src, dest.val)
          THEN [ok |-> FALSE, disk |-> made.disk]
          ELSE [ok |-> TRUE, disk |-> disk_with(made.disk, dest.val, made.disk[src])]

\* command_copy without the dest.exists() check.
command_copy_unchecked(a, target, io) ==
  IF ~IsSome(selected_entry(a)) THEN Fail(a, <<"No selection to copy">>)
  ELSE LET entry == Unwrap(selected_entry(a))
           src == Unwrap(selected_path(a))
           dest == compute_destination(a, target, entry.name)
       IN IF ~dest.ok THEN Fail(a, dest.err)
          ELSE LET copied == copy_entry(a.disk, entry, src, dest.val, io)
                   a1 == [a EXCEPT !.disk = copied.disk]
               IN IF ~copied.ok THEN Fail(a1, <<"copying">>)
                  ELSE Done(refresh_with_message(a1, FALSE, <<"Copied">>))

command_copy(a, target, io) ==
  IF ~IsSome(selected_entry(a)) THEN Fail(a, <<"No selection to copy">>)
  ELSE LET entry == Unwrap(selected_entry(a))
           src == Unwrap(selected_path(a))
           dest == compute_destination(a, target, entry.name)
       IN IF ~dest.ok THEN Fail(a, dest.err)
          ELSE IF raw_exists(a.disk, dest.val) THEN Fail(a, <<"Destination already exists">>)
          ELSE LET copied == copy_entry(a.disk, entry, src, dest.val, io)
                   a1 == [a EXCEPT !.disk = copied.disk]
               IN IF ~copied.ok THEN Fail(a1, <<"copying">>)
                  ELSE Done(refresh_with_message(a1, FALSE, <<"Copied">>))

\* command_move dropping the error of the removal.
command_move_lenient(a, target, io) ==
  IF ~IsSome(selected_entry(a)) THEN Fail(a, <<"No selection to move">>)
  ELSE LET entry == Unwrap(selected_entry(a))
           src == Unwrap(selected_path(a))
           dest == compute_destination(a, target, entry.name)
       IN IF ~dest.ok THEN Fail(a, dest.err)
          ELSE IF raw_exists(a.disk, dest.val) THEN Fail(a, <<"Destination already exists">>)
          ELSE LET to == walk(a.disk, <<>>, dest.val)
               IN IF "rename" \notin io /\ to.ok /\ rename_possible(a.disk, src, to.val)
                  THEN Done(refresh_with_message(
                              [a EXCEPT !.disk = rename_disk(@, src, to.val)],
                              TRUE, <<"Moved">>))
                  ELSE LET copied == copy_entry(a.disk, entry, src, dest.val, io)
                           a1 == [a EXCEPT !.disk = copied.disk]
                       IN IF ~copied.ok THEN Fail(a1, <<"copying">>)
                          ELSE Done(refresh_with_message(a1, TRUE, <<"Moved">>))

command_move(a, target, io) ==
  IF ~IsSome(selected_entry(a)) THEN Fail(a, <<"No selection to move">>)
  ELSE LET entry == Unwrap(selected_entry(a))
           src == Unwrap(selected_path(a))
           dest == compute_destination(a, target, entry.name)
       IN IF ~dest.ok THEN Fail(a, dest.err)
          ELSE IF raw_exists(a.disk, dest.val) THEN Fail(a, <<"Destination already exists">>)
          ELSE LET to == walk(a.disk, <<>>, dest.val)
               IN IF "rename" \notin io /\ to.ok /\ rename_possible(a.disk, src, to.val)
                  THEN Done(refresh_with_message(
                              [a EXCEPT !.disk = rename_disk(@, src, to.val)],
                              TRUE, <<"Moved">>))
                  ELSE LET copied == copy_entry(a.disk, entry, src, dest.val, io)
                           a1 == [a EXCEPT !.disk = copied.disk]
                           removable ==
                             IF entry.is_dir THEN remove_dir_all_possible(a1.disk, src)
                             ELSE remove_file_possible(a1.disk, src)
                       IN IF ~copied.ok THEN Fail(a1, <<"copying">>)
                          ELSE IF "remove" \in io \/ ~removable THEN Fail(a1, <<"removing">>)
                          ELSE Done(refresh_with_message(
                                      [a1 EXCEPT !.disk = remove_disk(@, src)],
                                      TRUE, <<"Moved">>))

\* `if let Err(err) = ... { self.status = format!("<what> failed: {err:#}") }`
or_status(r, what) ==
  IF r.ok THEN r.app ELSE [r.app EXCEPT !.status = <<what>> \o r.err]

run_command(a, input, io) ==
  LET trimmed == trim(input)
      cmd == split_command(trimmed)[1]
      args == split_command(trimmed)[2]
      command == resolve_command_alias(cmd)
      usage == [a EXCEPT !.status = <<"Usage">>]
  IN IF trimmed = <<>> THEN [a EXCEPT !.status = <<"Empty command">>]
     ELSE CASE command = kw_pwd -> [a EXCEPT !.status = <<"pwd">>]
            [] command = kw_refresh ->
                 [refresh_async(a, FALSE) EXCEPT !.status = <<"Refresh requested">>]
            [] command \in {kw_q, kw_quit} ->
                 [a EXCEPT !.status = <<"Use 'q' in normal mode to quit">>]
            [] command = kw_rename ->
                 IF args = <<>> THEN usage
                 ELSE or_status(command_rename(a, args, io), "Rename failed")
            [] command = kw_delete ->
                 or_status(request_delete_confirmation(a), "Delete failed")
            [] command = kw_mkdir ->
                 IF args = <<>> THEN usage
                 ELSE or_status(command_mkdir(a, args, io), "mkdir failed")
            [] command = kw_touch ->
                 IF args = <<>> THEN usage
                 ELSE or_status(command_touch(a, args, io), "touch failed")
            [] command = kw_copy ->
                 IF args = <<>> THEN usage
                 ELSE or_status(command_copy(a, args, io), "copy failed")
            [] command = kw_move ->
                 IF args = <<>> THEN usage
                 ELSE or_status(command_move(a, args, io), "move failed")
            [] command = kw_sh -> or_status(command_shell(a), "shell failed")
            [] command = kw_edit -> or_status(command_edit(a), "edit failed")
            [] command = kw_cd ->
                 IF args = <<>> THEN usage
                 ELSE or_status(command_cd(a, args), "cd failed")
            [] command = kw_help -> [a EXCEPT !.status = <<"Commands">>]
            [] OTHER -> [a EXCEPT !.status = <<"Unknown command">>]

\* execute_confirm_action deleting what is selected when the key arrives.
execute_confirm_action_selected(a, action, io) ==
  IF IsSome(selected_entry(a))
  THEN command_delete(a, Unwrap(selected_entry(a)), Unwrap(selected_path(a)), io)
  ELSE command_delete(a, action.entry, action.path, io)

execute_confirm_action(a, action, io) ==
  command_delete(a, action.entry, action.path, io)

\* ------------------------------------------------------------------ key handlers

\* KeyCode values other than Char(ch); every other key is Char(key).
SpecialKeys == {"Enter", "Esc", "Backspace", "Down", "Up", "Left", "Right", "Tab"}

Handled(a) == [app |-> a, quit |-> FALSE]

\* handle_refresh emptying the list as a change of directory does.
handle_refresh_clearing(a) == refresh_async(a, TRUE)

handle_refresh(a) == refresh_async(a, FALSE)

handle_normal_mode(a, key) ==
  LET b == [a EXCEPT !.awaiting_g = FALSE]
  IN CASE key = "q" -> [app |-> a, quit |-> TRUE]
       [] key \in {"j", "Down"} -> Handled(move_selection_by_count(b, 1))
       [] key \in {"k", "Up"} -> Handled(move_selection_by_count(b, -1))
       [] key = "g" ->
            IF a.awaiting_g
            THEN LET count == UnwrapOr(a.pending_count, 1)
                     target == IF count = 0 THEN 0 ELSE count - 1
                 IN Handled(jump_to_index(clear_pending_count(b), target))
            ELSE Handled([a EXCEPT !.awaiting_g = TRUE,
                                   !.status = <<"Press g again to jump to entry">>])
       [] key = "G" ->
            IF IsSome(a.pending_count)
            THEN LET count == Unwrap(a.pending_count)
                     target == IF count = 0 THEN 0 ELSE count - 1
                 IN Handled(jump_to_index(clear_pending_count(b), target))
            ELSE Handled(jump_to_end(b))
       [] key = "r" -> Handled(clear_pending_count(handle_refresh(b)))
       [] key \in {"h", "Left"} -> Handled(clear_pending_count(open_parent(b)))
       [] key \in {"l", "Right", "Enter"} -> Handled(clear_pending_count(enter_selection(b)))
       [] key = "n" -> Handled(clear_pending_count(search_next(b)))
       [] key = "N" -> Handled(clear_pending_count(search_prev(b)))
       [] key = "/" -> Handled(start_search(b))
       [] key = ":" -> Handled(start_command(b))
       [] key \notin SpecialKeys /\ is_ascii_digit(key) -> Handled(accumulate_count(a, key))
       [] OTHER -> Handled(clear_pending_count(b))

handle_search_mode(a, key) ==
  CASE key = "Esc" -> [cancel_overlay(a) EXCEPT !.status = <<"Search canceled">>]
    [] key = "Enter" ->
         IF a.input_mode.buffer = <<>>
         THEN set_overlay_feedback(a, <<"Enter a search query">>)
         ELSE apply_search(cancel_overlay(a), a.input_mode.buffer)
    [] key = "Backspace" ->
         clear_overlay_feedback([a EXCEPT !.input_mode.buffer = pop(@)])
    [] key \notin SpecialKeys ->
         clear_overlay_feedback([a EXCEPT !.input_mode.buffer = Append(@, key)])
    [] OTHER -> a

handle_command_mode(a, key, io) ==
  CASE key = "Esc" -> [cancel_overlay(a) EXCEPT !.status = <<"Command canceled">>]
    [] key = "Enter" ->
         IF trim(a.input_mode.buffer) = <<>>
         THEN set_overlay_feedback(a, <<"Enter a command">>)
         ELSE run_command(cancel_overlay(a), a.input_mode.buffer, io)
    [] key = "Backspace" ->
         clear_overlay_feedback([a EXCEPT !.input_mode.buffer = pop(@)])
    [] key \notin SpecialKeys ->
         clear_overlay_feedback([a EXCEPT !.input_mode.buffer = Append(@, key)])
    [] OTHER -> a

\* handle_confirm_mode taking every key but the confirming ones as a cancel.
handle_confirm_mode_any_cancels(a, key, io) ==
  CASE key \in {"Enter", "y", "Y"} ->
         LET r == execute_confirm_action([a EXCEPT !.input_mode = Normal],
                                         a.input_mode.action, io)
         IN clear_pending_count(or_status(r, "Action failed"))
    [] OTHER -> [cancel_overlay(a) EXCEPT !.status = <<"Action canceled">>]

handle_confirm_mode(a, key, io) ==
  CASE key \in {"Esc", "n", "N"} ->
         [cancel_overlay(a) EXCEPT !.status = <<"Action canceled">>]
    [] key \in {"Enter", "y", "Y"} ->
         LET r == execute_confirm_action([a EXCEPT !.input_mode = Normal],
                                         a.input_mode.action, io)
         IN clear_pending_count(or_status(r, "Action failed"))
    [] OTHER -> a

handle_key_event(a, key, io) ==
  CASE a.input_mode.mode = "Normal" -> handle_normal_mode(a, key)
    [] a.input_mode.mode = "Search" -> Handled(handle_search_mode(a, key))
    [] a.input_mode.mode = "Command" -> Handled(handle_command_mode(a, key, io))
    [] a.input_mode.mode = "Confirm" -> Handled(handle_confirm_mode(a, key, io))

\* process_external_commands: the editor or shell runs to its end, then the
\* directory is scanned again; a spawn failure or a non-zero exit is reported.
process_external_commands(a, io) ==
  IF ~IsSome(a.pending_external) THEN a
  ELSE LET command == Unwrap(a.pending_external)
           a1 == [a EXCEPT !.pending_external = None]
       IN IF "spawn" \in io
          THEN [a1 EXCEPT !.status = <<"External command failed">>]
          ELSE refresh_with_message(a1, FALSE,
                 IF command.cmd = "Edit" THEN <<"Edited">> ELSE <<"Returned from shell">>)

\* ------------------------------------------------------------------ the environment

\* The directory tree the program is started in, at "/".
InitialDisk ==
  LET c == <<"c">>  a == <<"a">>  B == <<"B">>  A == <<"A">>
  IN [p \in {<<>>, <<c>>, <<a>>, <<B>>, <<c, A>>} |->
        IF p \in {<<>>, <<c>>} THEN DirNode
        ELSE IF p = <<a>> THEN FileNode(<<"1">>)
        ELSE IF p = <<B>> THEN FileNode(<<"2">>)
        ELSE FileNode(<<>>)]

\* The system calls the OS may refuse while one key is handled (EACCES, EXDEV,
\* EIO); only the Enter key of Command and Confirm mode reaches a system call.
IoOutcomes == {{}, {"rename"}, {"rename", "remove"}, {"remove"}, {"create"}, {"copy"}}

ConfirmKeys == {"y", "Y", "Enter", "n", "N", "Esc", "j"}

\* The characters that continue the buffer towards one of the lines.
typed(buffer, lines) ==
  {line[Len(buffer) + 1] : line \in {l \in lines : Len(l) > Len(buffer) /\ IsPrefix(buffer, l)}}
OverlayKeys(buffer, lines) == typed(buffer, lines) \cup {"Enter", "Esc", "Backspace", "Tab"}

\* ------------------------------------------------------------------ the system

\* App::new: the fields as constructed, then refresh_async(true).
\* App::new in the tree, then the first refresh of run_app.
Started(tree) ==
  LET a == refresh_async(
             [current_dir |-> <<>>, entries |-> <<>>, selected |-> 0,
              status |-> <<>>, pending_token |-> None, next_token |-> 0,
              is_loading |-> FALSE, input_mode |-> Normal,
              pending_count |-> None, last_search |-> None,
              last_action_message |-> None, pending_external |-> None,
              preview |-> PreviewPane_loading, awaiting_g |-> FALSE,
              disk |-> tree, tasks |-> {}], TRUE)
  IN /\ current_dir = a.current_dir /\ entries = a.entries
     /\ selected = a.selected /\ status = a.status
     /\ pending_token = a.pending_token /\ next_token = a.next_token
     /\ is_loading = a.is_loading /\ input_mode = a.input_mode
     /\ pending_count = a.pending_count /\ last_search = a.last_search
     /\ last_action_message = a.last_action_message
     /\ pending_external = a.pending_external
     /\ preview = a.preview /\ awaiting_g = a.awaiting_g
     /\ disk = a.disk /\ tasks = a.tasks
     /\ fs_rx = <<>>
     /\ pc = "drain"
     /\ refusals = 0
     /\ entries_from = None

Init == Started(InitialDisk)

\* The control thread leaves a handler with the App it computed.
Commit(a) ==
  /\ current_dir' = a.current_dir /\ entries' = a.entries
  /\ selected' = a.selected /\ status' = a.status
  /\ pending_token' = a.pending_token /\ next_token' = a.next_token
  /\ is_loading' = a.is_loading /\ input_mode' = a.input_mode
  /\ pending_count' = a.pending_count /\ last_search' = a.last_search
  /\ last_action_message' = a.last_action_message
  /\ pending_external' = a.pending_external
  /\ preview' = a.preview /\ awaiting_g' = a.awaiting_g
  /\ disk' = a.disk /\ tasks' = a.tasks

\* History of entries: the event whose result handle_fs_event last applied,
\* None once a key handler replaced entries.
Applied(a, event) ==
  entries_from' = IF a.pending_token # pending_token THEN Some(event) ELSE entries_from
Kept(a) ==
  entries_from' = IF a.entries = entries THEN entries_from ELSE None

\* The OS refuses a system call only while fewer than MaxRefusals were refused.
Refuse(n) ==
  /\ refusals + n <= MaxRefusals
  /\ refusals' = refusals + n

\* A task of the blocking pool that ends without sending its event.
WorkerSilent ==
  \E t \in tasks :
    /\ tasks' = tasks \ {t}
    /\ UNCHANGED <<app_vars, disk, fs_rx, pc, refusals, entries_from>>

\* A task of the blocking pool runs: read_directory, then tx.send.
Worker ==
  \E t \in tasks :
    \E result \in {read_directory(disk, t.path, order) :
                     order \in delivery_orders(disk, t.path)} :
      /\ fs_rx' = Append(fs_rx, [path |-> t.path, token |-> t.token, result |-> result])
      /\ tasks' = tasks \ {t}
      /\ UNCHANGED <<app_vars, disk, pc, refusals, entries_from>>

\* The same when the OS refuses read_dir (permission denied, I/O error).
WorkerRefused ==
  \E t \in tasks :
    /\ Refuse(1)
    /\ fs_rx' = Append(fs_rx, [path |-> t.path, token |-> t.token,
                               result |-> Err(<<"read dir">>)])
    /\ tasks' = tasks \ {t}
    /\ UNCHANGED <<app_vars, disk, pc, entries_from>>

\* drain_fs_events: try_recv returned an event.
DrainEvent ==
  /\ pc = "drain"
  /\ fs_rx # <<>>
  /\ LET a == handle_fs_event(App, Head(fs_rx))
     IN Commit(a) /\ Applied(a, Head(fs_rx))
  /\ fs_rx' = Tail(fs_rx)
  /\ UNCHANGED <<pc, refusals>>

\* drain_fs_events: try_recv returned Empty; then process_external_commands
\* and the draw, up to the poll.
ProcessExternal ==
  /\ pc = "drain"
  /\ fs_rx = <<>>
  /\ \E io \in IF IsSome(pending_external) THEN {{}, {"spawn"}} ELSE {{}} :
       /\ Refuse(Cardinality(io))
       /\ LET a == process_external_commands(App, io)
          IN Commit(a) /\ Kept(a)
  /\ pc' = "poll"
  /\ UNCHANGED fs_rx

\* The keys the user may press in the mode the program is in: the keys of
\* Normal mode, the characters that continue a query or a command line, the
\* answers to a confirmation.
KeysOf(normal, queries, lines) ==
  CASE input_mode.mode = "Normal" -> normal
    [] input_mode.mode = "Search" -> OverlayKeys(input_mode.buffer, queries)
    [] input_mode.mode = "Command" -> OverlayKeys(input_mode.buffer, lines)
    [] input_mode.mode = "Confirm" -> ConfirmKeys

\* The requests a behaviour may have issued after the key: a key that runs a
\* command line or answers a confirmation is held to line_cap.
CapOf(key_cap, line_cap) ==
  IF input_mode.mode \in {"Command", "Confirm"} THEN line_cap ELSE key_cap

\* poll_and_handle_events with a key press read.  A refusal is one the handler
\* met: the outcome differs from that of the same key with nothing refused.
KeyPress(normal, queries, lines, ios, key_cap, line_cap) ==
  /\ pc = "poll"
  /\ \E key \in KeysOf(normal, queries, lines) :
       \E io \in IF key = "Enter" THEN ios ELSE {{}} :
         LET r == handle_key_event(App, key, io)
         IN /\ r.app.next_token + Len(r.app.pending_external) <= CapOf(key_cap, line_cap)
            /\ io # {} => r # handle_key_event(App, key, {})
            /\ Refuse(IF io = {} THEN 0 ELSE 1)
            /\ Commit(r.app) /\ Kept(r.app)
            /\ pc' = IF r.quit THEN "done" ELSE "drain"
  /\ UNCHANGED fs_rx

\* poll_and_handle_events when the tick passes without a key press.
PollTimeout ==
  /\ pc = "poll"
  /\ pc' = "drain"
  /\ UNCHANGED <<app_vars, disk, tasks, fs_rx, refusals, entries_from>>

\* Another process of the machine removes a path of the tree.
OtherProcess(paths) ==
  /\ \E path \in paths :
       /\ exists(disk, path)
       /\ disk' = remove_disk(disk, path)
  /\ UNCHANGED <<app_vars, tasks, fs_rx, pc, refusals, entries_from>>

\* ------------------------------------------------------------------ scans and directory changes

\* The user changes directory, refreshes and deletes while scans are in flight.
ScanKeys == {"q", "j", "r", "h", "l", ":"}
ScanLines == { <<"r", "m">>, <<"c", "d", " ", "c">> }

NextScan ==
  \/ Worker
  \/ WorkerRefused
  \/ DrainEvent
  \/ ProcessExternal
  \/ KeyPress(ScanKeys, {}, ScanLines, {{}}, MaxToken, MaxToken)
  \/ PollTimeout

SpecScan == Init /\ [][NextScan]_vars

\* ------------------------------------------------------------------ file operations

\* The user creates and deletes entries of the start directory.
FileKeys == {"j", ":"}
DeleteLines ==
  { <<"r", "m">>,
    <<"t", "o", "u", "c", "h", " ", "9">> }

NextDelete ==
  \/ Worker
  \/ DrainEvent
  \/ ProcessExternal
  \/ KeyPress(FileKeys, {}, DeleteLines, IoOutcomes, MaxToken, MaxToken)
  \/ PollTimeout

SpecDelete == Init /\ [][NextDelete]_vars

\* The user renames entries of the start directory, to names the command
\* accepts and to names it refuses.
RenameLines ==
  { <<"r", "e", "n", "a", "m", "e", " ", "B">>,
    <<"r", "e", "n", "a", "m", "e", " ", "z">>,
    <<"r", "e", "n", "a", "m", "e", " ", ".", ".">>,
    <<"r", "e", "n", "a", "m", "e", " ", "/">>,
    <<"r", "e", "n", "a", "m", "e", " ", "\\">> }

NextRename ==
  \/ Worker
  \/ DrainEvent
  \/ ProcessExternal
  \/ KeyPress(FileKeys, {}, RenameLines, IoOutcomes, MaxToken, MaxToken)
  \/ PollTimeout

SpecRename == Init /\ [][NextRename]_vars

\* ------------------------------------------------------------------ previews

\* A file of count lines of width bytes each, the last one ended by "\n" or
\* not, the byte at position nul (if any) a NUL.
FileBytes(count, width, closed, nul) ==
  LET total == IF count = 0 THEN 0
               ELSE count * (width + 1) - (IF closed THEN 0 ELSE 1)
  IN [i \in 1..total |-> IF i = nul THEN NUL
                          ELSE IF i % (width + 1) = 0 THEN "\n" ELSE "x"]

\* The start directory holds the directory d of size files and the file f.
PreviewTree(size, bytes) ==
  LET names == <<"a", "b", "c", "e", "g", "h", "i", "j", "k", "l", "m", "n", "o", "p">>
      d == <<"d">>  f == <<"f">>
  IN [p \in {<<>>, <<d>>, <<f>>} \cup {<<d, <<names[i]>> >> : i \in 1..size} |->
        IF p \in {<<>>, <<d>>} THEN DirNode
        ELSE IF p = <<f>> THEN FileNode(bytes)
        ELSE FileNode(<<>>)]

\* Directories around PREVIEW_DIR_ENTRIES files, and files around
\* PREVIEW_MAX_LINES lines and PREVIEW_MAX_BYTES bytes, text and not.
PreviewTrees ==
  {PreviewTree(size, <<"x">>) : size \in {0, 1, 11, 12, 13, 14}}
  \cup {PreviewTree(1, FileBytes(count, width, closed, nul)) :
          count \in {0, 1, 79, 80, 81, 100}, width \in {0, 1, 101, 120},
          closed \in BOOLEAN, nul \in {0, 1, 2000}}

InitPreview == \E tree \in PreviewTrees : Started(tree)

\* The user moves between the directory and the file.
NextPreview ==
  \/ Worker
  \/ DrainEvent
  \/ ProcessExternal
  \/ KeyPress({"j", "k"}, {}, {}, {{}}, MaxToken, MaxToken)
  \/ PollTimeout

SpecPreview == InitPreview /\ [][NextPreview]_vars

\* The user refreshes, enters, leaves and quits, with the scheduling the
\* runtime gives: a spawned task runs, the loop goes on from its drain to its
\* poll, and the poll returns when its tick has passed.  Nothing makes the
\* user press a key.
NextLoad ==
  \/ Worker
  \/ WorkerRefused
  \/ DrainEvent
  \/ ProcessExternal
  \/ KeyPress({"q", "r", "l", "h"}, {}, {}, {{}}, MaxToken, MaxToken)
  \/ PollTimeout

SpecLoad ==
  /\ Init /\ [][NextLoad]_vars
  /\ WF_vars(Worker)
  /\ WF_vars(DrainEvent)
  /\ WF_vars(ProcessExternal)
  /\ WF_vars(PollTimeout)

\* ------------------------------------------------------------------ modes, counts and selection

\* The user moves the selection, with counts and searches, and deletes, while
\* another process removes a file of the start directory.
ModalKeys == {"j", "k", "g", "G", "9", "n", "N", "/", ":", "l", "h", "r", "x"}
ModalLines == { <<"r", "m">> }
ModalQueries == { <<"b">>, <<"Z">> }
ModalRemovals == { << <<"B">> >> }

NextModal ==
  \/ Worker
  \/ WorkerRefused
  \/ DrainEvent
  \/ ProcessExternal
  \/ KeyPress(ModalKeys, ModalQueries, ModalLines, {{}}, MaxIssue, MaxIssue)
  \/ PollTimeout
  \/ OtherProcess(ModalRemovals)

SpecModal == Init /\ [][NextModal]_vars

\* ------------------------------------------------------------------ every issuer of a scan

\* The user runs each command that rescans, and the keys that do.
IssueKeys == {"r", "h", "l", ":"}
IssueLines ==
  { <<"r", "m">>,
    <<"r", "e", "f", "r", "e", "s", "h">>,
    <<"r", "e", "n", "a", "m", "e", " ", "z">>,
    <<"m", "k", "d", "i", "r", " ", "9">>,
    <<"t", "o", "u", "c", "h", " ", "9">>,
    <<"c", "p", " ", "z">>,
    <<"m", "v", " ", "z">>,
    <<"c", "d", " ", "c">>,
    <<"e", "d", "i", "t">>,
    <<"s", "h">> }

NextIssue ==
  \/ Worker
  \/ DrainEvent
  \/ ProcessExternal
  \/ KeyPress(IssueKeys, {}, IssueLines, {{}}, MaxToken, MaxIssue)
  \/ PollTimeout

SpecIssue == Init /\ [][NextIssue]_vars

\* ------------------------------------------------------------------ mkdir and touch

\* The user creates directories and files under names that are free, taken by
\* a file, taken by a directory, or refused by validate_new_name.
CreateKeys == {":"}
CreateLines ==
  { <<"m", "k", "d", "i", "r", " ", "c">>,
    <<"m", "k", "d", "i", "r", " ", "a">>,
    <<"m", "k", "d", "i", "r", " ", "9">>,
    <<"m", "k", "d", "i", "r", " ", "/">>,
    <<"t", "o", "u", "c", "h", " ", "a">>,
    <<"t", "o", "u", "c", "h", " ", "c">>,
    <<"t", "o", "u", "c", "h", " ", "9">>,
    <<"t", "o", "u", "c", "h", " ", ".", ".">> }

NextCreate ==
  \/ Worker
  \/ DrainEvent
  \/ ProcessExternal
  \/ KeyPress(CreateKeys, {}, CreateLines, IoOutcomes, MaxToken, MaxToken)
  \/ PollTimeout

SpecCreate == Init /\ [][NextCreate]_vars

\* The user copies and moves the selection: to a free name, onto an entry that
\* exists, into a directory, and to a path that ends in a separator; the OS may
\* refuse the rename, the copy or the removal.
NextMove ==
  LET MoveKeys == {"j", ":"}
      MoveLines == { <<"m", "v", " ", "z">>,
                     <<"c", "p", " ", "B">>,
                     <<"m", "v", " ", "c">>,
                     <<"c", "p", " ", "c">>,
                     <<"c", "p", " ", "z", "/">> }
  IN \/ Worker
     \/ DrainEvent
     \/ ProcessExternal
     \/ KeyPress(MoveKeys, {}, MoveLines, IoOutcomes, MaxIssue, MaxIssue)
     \/ PollTimeout

SpecMove == Init /\ [][NextMove]_vars

\* The user fills and leaves the search and command lines: blank and non-blank
\* buffers, changes of directory that cannot be made, and refreshes in between.
NextOverlay ==
  LET OverlayNormal == {"j", "r", "/", ":"}
      OverlayQueries == { <<" ">>, <<"b">> }
      OverlayLines == { <<" ">>,
                        <<"p", "w", "d">>,
                        <<"c", "d", " ", "a">>,
                        <<"c", "d", " ", "z">> }
  IN \/ Worker
     \/ DrainEvent
     \/ ProcessExternal
     \/ KeyPress(OverlayNormal, OverlayQueries, OverlayLines, {{}}, MaxIssue, MaxIssue)
     \/ PollTimeout

SpecOverlay == Init /\ [][NextOverlay]_vars

\* The user searches, and repeats searches in both directions, in a list where
\* a query matches no name, one name or several; the file ab is of the user's
\* making.
NextSearch ==
  LET SearchKeys == {"j", "n", "N", "/", ":"}
      SearchQueries == { <<"b">>, <<"A">>, <<"Z">> }
      SearchLines == { <<"t", "o", "u", "c", "h", " ", "a", "b">> }
  IN \/ Worker
     \/ DrainEvent
     \/ ProcessExternal
     \/ KeyPress(SearchKeys, SearchQueries, SearchLines, {{}}, MaxIssue, MaxIssue)
     \/ PollTimeout

SpecSearch == Init /\ [][NextSearch]_vars

\* ------------------------------------------------------------------ properties of scans

\* A step of drain_fs_events that hands the oldest queued event to handle_fs_event.
DrainStep == fs_rx # <<>> /\ fs_rx' = Tail(fs_rx)

\* The fields a scan result writes when it is applied.
Shown == <<entries, selected, status, pending_token, is_loading>>

\* C1: handle_fs_event applies a DirectoryLoaded result exactly when its token
\* is the pending one; an event with any other token, a None pending_token
\* included, leaves entries, selected, status, pending_token, is_loading,
\* preview and input_mode as they were.
C1_StaleResultDiscarded ==
  [][DrainStep =>
       LET event == Head(fs_rx)
       IN IF Some(event.token) = pending_token
          THEN /\ pending_token' = None
               /\ is_loading' = FALSE
               /\ entries' = (IF event.result.ok THEN event.result.val ELSE <<>>)
               /\ status' # <<"Loading ...">>
          ELSE UNCHANGED <<entries, selected, status, pending_token, is_loading,
                           preview, input_mode>>]_vars

\* The result of token 1 was drained while token 2 was pending: the entries
\* shown are still those of token 0.
C1_Witness ==
  /\ entries # <<>>
  /\ IsSome(entries_from) /\ Unwrap(entries_from).token = 0
  /\ pending_token = Some(2)
  /\ fs_rx = <<>>
  /\ \A t \in tasks : t.token = 2

\* C2: with several scans outstanding and completing in any order, a drained
\* result changes the state only if it is that of the most recently issued
\* request, and once no task runs and no result is queued the entries are the
\* result of the last issued scan.
C2_OnlyLatestApplied ==
  /\ [][(DrainStep /\ Shown' # Shown) => Head(fs_rx).token = next_token - 1]_vars
  /\ []((tasks = {} /\ fs_rx = <<>>) =>
          /\ pending_token = None
          /\ IsSome(entries_from)
          /\ Unwrap(entries_from).token = next_token - 1
          /\ entries = (IF Unwrap(entries_from).result.ok
                        THEN Unwrap(entries_from).result.val ELSE <<>>))

\* The latest request completed first and was applied; the result of an earlier
\* request is delivered after it.
C2_Witness ==
  /\ IsSome(entries_from)
  /\ Unwrap(entries_from).token = next_token - 1
  /\ fs_rx # <<>>
  /\ Head(fs_rx).token < Unwrap(entries_from).token

\* C3: non-empty entries are the applied result of a scan of current_dir, and a
\* result is applied only when its path is current_dir, which the step keeps.
C3_EntriesOfCurrentDir ==
  /\ [](entries # <<>> =>
          /\ IsSome(entries_from)
          /\ Unwrap(entries_from).path = current_dir
          /\ Unwrap(entries_from).result = Ok(entries))
  /\ [][(DrainStep /\ Shown' # Shown) =>
          /\ Head(fs_rx).path = current_dir
          /\ current_dir' = current_dir]_vars

\* The entries of a subdirectory are shown while a late result for another
\* directory is queued.
C3_Witness ==
  /\ current_dir # <<>>
  /\ entries # <<>>
  /\ fs_rx # <<>>
  /\ Head(fs_rx).path # current_dir
  /\ Head(fs_rx).result.ok

\* C4: selected is 0 when entries is empty and below entries.len() otherwise.
C4_SelectedInRange ==
  IF entries = <<>> THEN selected = 0 ELSE selected \in 0..(Len(entries) - 1)

\* drain_fs_events is about to apply a result, an error or a list that ends at
\* or before the selected index.
C4_Witness ==
  /\ pc = "drain"
  /\ fs_rx # <<>>
  /\ Some(Head(fs_rx).token) = pending_token
  /\ selected > 0
  /\ Head(fs_rx).result.ok
  /\ Len(Head(fs_rx).result.val) <= selected

\* Directories first; within directories and within files, names in
\* non-decreasing order of their lowercase forms.
Sorted(es) ==
  \A i \in 1..(Len(es) - 1) :
    \/ es[i].is_dir /\ ~es[i + 1].is_dir
    \/ /\ es[i].is_dir = es[i + 1].is_dir
       /\ ~str_lt(to_lowercase(es[i + 1].name), to_lowercase(es[i].name))

\* C5: entries is sorted in every state, and a step that changes entries
\* either empties it or installs the whole list of the result being applied.
C5_EntriesSorted ==
  /\ []Sorted(entries)
  /\ [][entries' # entries =>
          \/ entries' = <<>>
          \/ /\ DrainStep
             /\ Some(Head(fs_rx).token) = pending_token
             /\ Head(fs_rx).result = Ok(entries')]_vars

\* A list where the lowercase comparison decides: "a" before "B", behind the
\* directory.
C5_Witness ==
  /\ Len(entries) = 3
  /\ entries[1].is_dir
  /\ entries[2] = FileEntry(<<"a">>, FALSE)
  /\ entries[3] = FileEntry(<<"B">>, FALSE)

\* The tokens of the requests whose result was not yet drained.
Outstanding == {t.token : t \in tasks} \cup {fs_rx[i].token : i \in DOMAIN fs_rx}

\* C6: the tokens of outstanding requests are distinct and below next_token;
\* next_token never decreases; a step that issues a scan issues one, with the
\* token next_token, and makes it pending; pending_token is None or
\* next_token - 1, and changes to no token but the one just issued.
C6_TokensFresh ==
  /\ [](/\ pending_token \in {None, Some(next_token - 1)}
        /\ \A token \in Outstanding : token < next_token
        /\ Cardinality(Outstanding) = Cardinality(tasks) + Len(fs_rx))
  /\ [][/\ next_token' >= next_token
        /\ (next_token' # next_token \/ ~(tasks' \subseteq tasks)) =>
              /\ next_token' = next_token + 1
              /\ tasks' \ tasks = {[path |-> current_dir', token |-> next_token]}
              /\ pending_token' = Some(next_token)
        /\ (pending_token' # pending_token /\ IsSome(pending_token')) =>
              /\ pending_token' = Some(next_token)
              /\ next_token' = next_token + 1]_vars

\* A file operation issued the third request, which is pending.
C6_Witness ==
  /\ next_token = 3
  /\ pending_token = Some(2)
  /\ disk # InitialDisk

Removed == (DOMAIN disk) \ (DOMAIN disk')

\* C8: y, Y or Enter in Confirm mode removes the path captured when the delete
\* was requested, with what lies below it, and nothing else, whatever entries
\* and selected are by then; when the OS refuses the removal nothing is removed.
C8_DeletesCapturedPath ==
  /\ []((pc = "poll" /\ input_mode.mode = "Confirm") =>
          \A key \in {"y", "Y", "Enter"} :
            \A io \in IoOutcomes :
              LET after == handle_key_event(App, key, io).app
                  path == input_mode.action.path
              IN /\ exists(disk, path)
                 /\ after.disk = IF "remove" \in io THEN disk ELSE remove_disk(disk, path)
                 /\ after.input_mode = Normal)
  /\ [][(pc = "poll" /\ input_mode.mode = "Confirm" /\ disk' # disk) =>
          /\ disk' = remove_disk(disk, input_mode.action.path)
          /\ Removed = subtree(disk, input_mode.action.path)]_vars

\* The confirmation is awaited while an accepted scan result has put another
\* entry under the selected index.
C8_Witness ==
  /\ pc = "poll"
  /\ input_mode.mode = "Confirm"
  /\ IsSome(selected_entry(App))
  /\ selected_path(App) # Some(input_mode.action.path)
  /\ input_mode.action.entry \in {entries[i] : i \in DOMAIN entries}

\* The buffer of Command mode holds the delete command or an alias of it.
DeleteTyped ==
  /\ input_mode.mode = "Command"
  /\ trim(input_mode.buffer) # <<>>
  /\ resolve_command_alias(split_command(trim(input_mode.buffer))[1]) = kw_delete

\* C9: Enter on the delete command removes nothing and issues no scan: with a
\* selection it enters Confirm mode for the selected entry, without one it
\* reports the error in Normal mode and changes nothing else; n, N or Esc in
\* Confirm mode lead to Normal mode with the disk, entries, selected and
\* pending_token as they were; a step removes paths without creating any only
\* from Confirm mode.
C9_DeleteNeedsConfirmation ==
  /\ []((pc = "poll" /\ DeleteTyped) =>
          \A io \in IoOutcomes :
            LET after == handle_key_event(App, "Enter", io).app
            IN IF IsSome(selected_entry(App))
               THEN after = [App EXCEPT
                               !.input_mode = Confirm(Unwrap(selected_entry(App)),
                                                      Unwrap(selected_path(App))),
                               !.status = <<"Confirm delete with y/n">>]
               ELSE after = [App EXCEPT
                               !.input_mode = Normal,
                               !.status = <<"Delete failed", "No selection to delete">>])
  /\ []((pc = "poll" /\ input_mode.mode = "Confirm") =>
          /\ \A key \in {"n", "N", "Esc"} :
               handle_key_event(App, key, {}).app =
                 [App EXCEPT !.input_mode = Normal, !.status = <<"Action canceled">>]
          /\ \A key \in ConfirmKeys \ {"n", "N", "Esc", "y", "Y", "Enter"} :
               handle_key_event(App, key, {}).app = App)
  /\ [][(Removed # {} /\ DOMAIN disk' \subseteq DOMAIN disk) =>
          (pc = "poll" /\ input_mode.mode = "Confirm")]_vars
  /\ [][(pc = "poll" /\ pc' = "drain" /\ input_mode.mode = "Confirm"
           /\ status' = <<"Action canceled">>) =>
          /\ input_mode' = Normal
          /\ UNCHANGED <<disk, entries, selected, pending_token, next_token, tasks>>]_vars

\* A requested delete was canceled: only handle_confirm_mode writes this status.
C9_Witness ==
  /\ status = <<"Action canceled">>
  /\ input_mode = Normal
  /\ entries # <<>>

\* The buffer of Command mode holds a rename that violates a precondition.
RenameViolation ==
  /\ input_mode.mode = "Command"
  /\ trim(input_mode.buffer) # <<>>
  /\ LET parts == split_command(trim(input_mode.buffer))
         name == trim(parts[2])
     IN /\ resolve_command_alias(parts[1]) = kw_rename
        /\ \/ ~IsSome(selected_entry(App))
           \/ name = <<>>
           \/ name = Unwrap(selected_entry(App)).name
           \/ name \in {Dot, DotDot}
           \/ \E i \in DOMAIN name : name[i] \in {"/", "\\"}
           \/ exists(disk, join(current_dir, name))

\* The reports of a rename that did not take place.
RenameReports == {<<"Usage">>} \cup {<<"Rename failed", e>> : e \in
  {"No selection to rename", "Name cannot be empty", "Name is unchanged",
   "Invalid name", "Name cannot contain path separators",
   "A file named already exists"}}

\* C10: a rename without a selection, with a name that is empty after
\* trimming, equal to the current name, '.' or '..', containing '/' or '\', or
\* naming an existing entry of current_dir, reports an error and leaves the
\* disk, the requests issued, pending_token, next_token, entries and selected
\* as they were.
C10_RenameRejected ==
  /\ []((pc = "poll" /\ RenameViolation) =>
          \A io \in IoOutcomes :
            LET after == handle_key_event(App, "Enter", io).app
            IN \E report \in RenameReports :
                 after = [App EXCEPT !.input_mode = Normal, !.status = report])
  /\ [](IsSome(selected_entry(App)) =>
          \A blank \in {<<>>, <<" ">>, <<" ", " ">>} :
            command_rename(App, blank, {}) = Fail(App, <<"Name cannot be empty">>))
  /\ [][(pc = "poll" /\ pc' = "drain" /\ RenameViolation) =>
          UNCHANGED <<disk, tasks, pending_token, next_token, entries, selected>>]_vars

\* A rename onto the name of another entry was refused.
C10_Witness ==
  /\ status = <<"Rename failed", "A file named already exists">>
  /\ input_mode = Normal
  /\ disk = InitialDisk
  /\ selected = 1

\* ------------------------------------------------------------------ properties of mkdir and touch

\* The buffer of Command mode holds a mkdir or a touch whose name
\* validate_new_name refuses or an entry of current_dir bears.
CreateViolation ==
  /\ input_mode.mode = "Command"
  /\ trim(input_mode.buffer) # <<>>
  /\ LET parts == split_command(trim(input_mode.buffer))
     IN /\ resolve_command_alias(parts[1]) \in {kw_mkdir, kw_touch}
        /\ parts[2] # <<>>
        /\ \/ ~validate_new_name(parts[2], <<>>).ok
           \/ exists(disk, join(current_dir, trim(parts[2])))

\* C11: mkdir and touch with a name that fails validation or that an entry of
\* current_dir already bears (a regular file included, for touch) report an
\* error, leave the disk as it is and issue no scan.
C11_CreateRejected ==
  (pc = "poll" /\ CreateViolation) =>
    \A io \in IoOutcomes :
      LET after == handle_key_event(App, "Enter", io).app
      IN /\ after.disk = disk
         /\ after.tasks = tasks
         /\ after.pending_token = pending_token
         /\ after.next_token = next_token
         /\ after.status[1] \in {"mkdir failed", "touch failed"}


\* ------------------------------------------------------------------ properties of copy and move

\* The command line holds a copy or a move with a destination.
MoveTyped ==
  /\ input_mode.mode = "Command"
  /\ trim(input_mode.buffer) # <<>>
  /\ LET parts == split_command(trim(input_mode.buffer))
     IN /\ resolve_command_alias(parts[1]) \in {kw_copy, kw_move}
        /\ parts[2] # <<>>

MoveArg == trim(split_command(trim(input_mode.buffer))[2])

\* The typed path, taken from current_dir when it is relative.
TypedPath ==
  (IF is_absolute(MoveArg) THEN <<>> ELSE current_dir) \o components(MoveArg)

\* The destination of the entry called name: the typed path, with the name
\* appended when the argument ends in a separator or names a directory.
Destination(name) ==
  IF MoveArg[Len(MoveArg)] \in {"/", "\\"} \/ raw_is_dir(disk, TypedPath)
  THEN Append(TypedPath, name) ELSE TypedPath

Selection == selected_entry(App)

\* C12: copy and move resolve the destination against current_dir, append the
\* name of the selection when the argument ends in a separator or names a
\* directory, and fail with disk, tasks and tokens as they were when that
\* destination exists or nothing is selected; when they do go on, with a
\* destination outside the source, the destination they fill is that one.
C12_DestinationChecked ==
  (pc = "poll" /\ MoveTyped) =>
    \A io \in IoOutcomes :
      LET after == handle_key_event(App, "Enter", io).app
      IN /\ (~IsSome(Selection) \/ raw_exists(disk, Destination(Unwrap(Selection).name)))
              => /\ after.disk = disk /\ after.tasks = tasks
                 /\ after.pending_token = pending_token
                 /\ after.next_token = next_token
                 /\ after.status[1] \in {"copy failed", "move failed"}
         /\ after.next_token # next_token
              => /\ IsSome(Selection)
                 /\ ~raw_exists(disk, Destination(Unwrap(Selection).name))
                 /\ \/ raw_exists(after.disk, Destination(Unwrap(Selection).name))
                    \/ IsPrefix(Unwrap(selected_path(App)),
                                Destination(Unwrap(Selection).name))

\* The selection is to go into a directory that holds an entry of its name.
C12_Witness ==
  /\ pc = "poll" /\ MoveTyped /\ IsSome(Selection)
  /\ raw_is_dir(disk, TypedPath)
  /\ raw_exists(disk, Destination(Unwrap(Selection).name))
  /\ handle_key_event(App, "Enter", {}).app.status
       = <<"copy failed", "Destination already exists">>


\* A move that rename(2) can carry out is typed: something is selected, the
\* destination is free and outside the source, and its parent is a directory.
Renamable ==
  /\ MoveTyped
  /\ resolve_command_alias(split_command(trim(input_mode.buffer))[1]) = kw_move
  /\ IsSome(Selection)
  /\ LET to == walk(disk, <<>>, Destination(Unwrap(Selection).name))
     IN to.ok /\ rename_possible(disk, Unwrap(selected_path(App)), to.val)

Renamed ==
  rename_disk(disk, Unwrap(selected_path(App)),
              walk(disk, <<>>, Destination(Unwrap(Selection).name)).val)

\* C13: move renames when the OS lets it, and copies and removes only when the
\* rename was refused; a fallback whose two steps succeed leaves the disk that
\* the rename would have left, for a file and for a directory.
C13_FallbackEqualsRename ==
  (pc = "poll" /\ Renamable) =>
    /\ handle_key_event(App, "Enter", {}).app.disk = Renamed
    /\ LET after == handle_key_event(App, "Enter", {"rename"}).app
       IN after.next_token # next_token => after.disk = Renamed


\* C14: when the rename is refused, the copy succeeds and the removal of the
\* source is refused, the status reports the removal, the copy stays at the
\* destination, the source is still there as it was, and the mode is Normal.
C14_RemovalFailureReported ==
  (pc = "poll" /\ Renamable) =>
    LET after == handle_key_event(App, "Enter", {"rename", "remove"}).app
        src == Unwrap(selected_path(App))
    IN /\ after.status = <<"move failed", "removing">>
       /\ raw_exists(after.disk, Destination(Unwrap(Selection).name))
       /\ \A p \in subtree(disk, src) : exists(after.disk, p) /\ after.disk[p] = disk[p]
       /\ after.input_mode = Normal

\* The removal was refused after the copy to z was made.
C14_Witness ==
  /\ status = <<"move failed", "removing">>
  /\ input_mode = Normal
  /\ exists(disk, << <<"z">> >>)
  /\ refusals = 1


\* ------------------------------------------------------------------ properties of cd

\* The command line holds a cd whose target does not resolve or is no directory.
CdRefused ==
  /\ input_mode.mode = "Command"
  /\ trim(input_mode.buffer) # <<>>
  /\ LET parts == split_command(trim(input_mode.buffer))
         target == trim(parts[2])
         resolved == canonicalize(disk, (IF is_absolute(target) THEN <<>> ELSE current_dir)
                                          \o components(target))
     IN /\ resolve_command_alias(parts[1]) = kw_cd
        /\ target # <<>>
        /\ ~resolved.ok \/ ~is_dir(disk, resolved.val)

\* C15: cd to a target that does not resolve or is no directory reports an
\* error and leaves current_dir, entries, selected, last_search, pending_token
\* and next_token as they were.
C15_CdRefusedKeepsState ==
  (pc = "poll" /\ CdRefused) =>
    LET after == handle_key_event(App, "Enter", {}).app
    IN /\ after.status[1] = "cd failed"
       /\ after.current_dir = current_dir
       /\ after.entries = entries
       /\ after.selected = selected
       /\ after.last_search = last_search
       /\ after.pending_token = pending_token
       /\ after.next_token = next_token
       /\ after.tasks = tasks

\* A refused cd is typed while a search is remembered and a scan is awaited.
C15_Witness ==
  /\ pc = "poll" /\ CdRefused
  /\ IsSome(last_search) /\ IsSome(pending_token) /\ entries # <<>>
  /\ handle_key_event(App, "Enter", {}).app.status[1] = "cd failed"


\* ------------------------------------------------------------------ properties of the search and command lines

InOverlay == input_mode.mode \in {"Search", "Command"}

\* C17: in Search and in Command mode, Enter on a buffer that is empty or holds
\* whitespace only keeps the mode and the buffer, sets the inline feedback and
\* runs nothing (last_search, selected and the disk stay); Enter on any other
\* buffer commits it and returns to Normal.
C17_BlankEnterStays ==
  (pc = "poll" /\ InOverlay) =>
    LET after == handle_key_event(App, "Enter", {}).app
    IN IF trim(input_mode.buffer) = <<>>
       THEN /\ after.input_mode.mode = input_mode.mode
            /\ after.input_mode.buffer = input_mode.buffer
            /\ IsSome(after.input_mode.feedback)
            /\ after.last_search = last_search
            /\ after.selected = selected
            /\ after.disk = disk
       ELSE after.input_mode = Normal


\* C18: Esc in Search or Command mode returns to Normal without the buffer and
\* runs nothing: last_search, entries, selected, current_dir, pending_token,
\* the disk and the scans stay.  A character and Backspace change the buffer
\* only, and set the inline feedback to none.
C18_EscDiscardsBuffer ==
  (pc = "poll" /\ InOverlay) =>
    /\ LET after == handle_key_event(App, "Esc", {}).app
       IN /\ after.input_mode = Normal
          /\ after.last_search = last_search
          /\ after.entries = entries
          /\ after.selected = selected
          /\ after.current_dir = current_dir
          /\ after.pending_token = pending_token
          /\ after.next_token = next_token
          /\ after.disk = disk /\ after.tasks = tasks
    /\ \A ch \in {"b", " ", "/"} :
         handle_key_event(App, ch, {}).app
           = [App EXCEPT !.input_mode.buffer = Append(@, ch),
                         !.input_mode.feedback = None]
    /\ handle_key_event(App, "Backspace", {}).app
         = [App EXCEPT !.input_mode.buffer =
                         IF @ = <<>> THEN @ ELSE SubSeq(@, 1, Len(@) - 1),
                       !.input_mode.feedback = None]

\* The command line holds a blank and the feedback of a refused Enter, with a
\* search remembered; Backspace empties the line and drops the feedback.
C18_Witness ==
  /\ pc = "poll" /\ input_mode.mode = "Command"
  /\ input_mode.buffer = <<" ">> /\ IsSome(input_mode.feedback)
  /\ IsSome(last_search)
  /\ handle_key_event(App, "Backspace", {}).app.input_mode = Command(<<>>, None)
  /\ handle_key_event(App, "Esc", {}).app.input_mode = Normal


\* ------------------------------------------------------------------ properties of the confirmation

\* Keys that neither confirm nor cancel.
OtherKeys == {"j", "k", "q", "g", "G", "9", "x", " ", "/", ":", "h", "l", "r",
              "Tab", "Backspace", "Up", "Down", "Left", "Right"}

\* C19: in Confirm mode a key other than y, Y, Enter, n, N and Esc leaves the
\* whole state as it is: the mode with its action, entries, selected,
\* current_dir, pending_token, pending_count, status and all the rest.
C19_ConfirmIgnoresOtherKeys ==
  (pc = "poll" /\ input_mode.mode = "Confirm") =>
    \A key \in OtherKeys : \A io \in IoOutcomes :
      handle_key_event(App, key, io) = [app |-> App, quit |-> FALSE]

\* The confirmation is shown while a scan is awaited, and j is ignored.
C19_Witness ==
  /\ pc = "poll" /\ input_mode.mode = "Confirm"
  /\ entries # <<>> /\ IsSome(pending_token)
  /\ handle_key_event(App, "j", {}) = [app |-> App, quit |-> FALSE]


\* ------------------------------------------------------------------ properties of the selection

\* The moves tried on every list, and the turns round the list they can make.
MaxDelta == 7
MaxWraps == 8

\* index is the representative of to among 0 .. n - 1: they differ by a
\* multiple of n.
Wrapped(index, to, n) ==
  /\ index \in 0..(n - 1)
  /\ \E q \in -(MaxWraps)..MaxWraps : to = q * n + index

\* C20: on N > 0 entries move_selection(delta) selects (selected + delta) mod N,
\* never negative (from 0 of 3, -1 selects 2); move_selection_by_count(delta)
\* moves by delta times the pending count (1 when there is none) and leaves no
\* count; on an empty list both leave selected at 0.
C20_SelectionWraps ==
  (pc = "poll" /\ input_mode.mode = "Normal") =>
    LET N == Len(entries)
        count == IF IsSome(pending_count) THEN Unwrap(pending_count) ELSE 1
    IN /\ \A delta \in -(MaxDelta)..MaxDelta :
            LET after == move_selection(App, delta)
            IN IF N = 0 THEN after.selected = 0
               ELSE Wrapped(after.selected, selected + delta, N)
       /\ (N = 3 /\ selected = 0) => move_selection(App, -1).selected = 2
       /\ \A delta \in {-1, 1} :
            LET after == move_selection_by_count(App, delta)
            IN /\ after.pending_count = None
               /\ IF N = 0 THEN after.selected = 0
                  ELSE /\ after.selected \in 0..(N - 1)
                       /\ after.selected = move_selection(App, delta * count).selected
                       /\ (selected + delta * count - after.selected) % N = 0

\* Three entries with the first selected and a count typed: k wraps backwards.
C20_Witness ==
  /\ pc = "poll" /\ input_mode.mode = "Normal"
  /\ Len(entries) = 3 /\ selected = 0 /\ pending_count = Some(9)
  /\ move_selection(App, -1).selected = 2
  /\ move_selection_by_count(App, -1).selected = 0
  /\ move_selection_by_count(App, -1).pending_count = None


\* ------------------------------------------------------------------ properties of the numeric prefix

\* The keys of Normal mode that are no digits, move nothing by a count, and
\* do not end the program.
PlainKeys == {"r", "h", "l", "n", "N", "/", ":", "x", " ", "Left", "Right",
              "Enter", "Esc", "Backspace", "Tab"}

\* C21: the numeric prefix is never above 9999; a digit in Normal mode makes it
\* min(10 * previous + digit, 9999); a movement, gg and G use it and leave
\* none; every other key that is no digit and is handled in Normal mode
\* leaves none (g alone, the first half of gg, keeps it).
C21_CountCappedAndConsumed ==
  /\ IsSome(pending_count) => Unwrap(pending_count) \in 0..9999
  /\ (pc = "poll" /\ input_mode.mode = "Normal") =>
       LET previous == IF IsSome(pending_count) THEN Unwrap(pending_count) ELSE 0
           N == Len(entries)
           jumped(after) ==
             /\ after.pending_count = None
             /\ (N > 0 /\ IsSome(pending_count)) =>
                  after.selected = IF previous = 0 THEN 0
                                   ELSE IF previous - 1 < N - 1 THEN previous - 1
                                   ELSE N - 1
       IN /\ \A d \in 0..9 :
               LET digit == CHOOSE c \in DOMAIN Code : Code[c] = 48 + d
                   sum == 10 * previous + d
               IN handle_key_event(App, digit, {}).app.pending_count
                    = Some(IF sum < 9999 THEN sum ELSE 9999)
          /\ \A key \in {"j", "k", "Down", "Up"} :
               handle_key_event(App, key, {}).app.pending_count = None
          /\ jumped(handle_key_event(App, "G", {}).app)
          /\ IF awaiting_g THEN jumped(handle_key_event(App, "g", {}).app)
             ELSE handle_key_event(App, "g", {}).app.pending_count = pending_count
          /\ \A key \in PlainKeys :
               handle_key_event(App, key, {}).app.pending_count = None

\* The prefix is at its cap, with entries listed: another digit leaves it there.
C21_Witness ==
  /\ pc = "poll" /\ input_mode.mode = "Normal"
  /\ pending_count = Some(9999) /\ entries # <<>>
  /\ handle_key_event(App, "9", {}).app.pending_count = Some(9999)
  /\ handle_key_event(App, "G", {}).app.pending_count = None


\* ------------------------------------------------------------------ properties of search

\* The indices of the entries whose lowercased name contains the lowercased query.
Matching(query) ==
  {i \in 0..(Len(entries) - 1) :
     contains(to_lowercase(entries[i + 1].name), to_lowercase(query))}

\* The steps from the selection forward to index i, round the end of the list.
Ahead(i) == (i - selected) % Len(entries)
\* The steps from the selection backward to index i, round the start of the list.
Behind(i) == (selected - i) % Len(entries)

\* A search is typed and entries are listed.
SearchTyped ==
  /\ pc = "poll" /\ input_mode.mode = "Search"
  /\ input_mode.buffer # <<>> /\ entries # <<>>

\* C22: apply_search on a list that is not empty selects the first entry, in
\* the order selected, selected + 1, ... round to selected - 1, whose
\* lowercased name contains the lowercased query; when no name does, selected
\* stays and the status says that nothing matched.
C22_SearchFirstCyclicMatch ==
  SearchTyped =>
    LET after == handle_key_event(App, "Enter", {}).app
        hits == Matching(input_mode.buffer)
    IN IF hits = {}
       THEN after.selected = selected /\ after.status = <<"No match">>
       ELSE /\ after.selected \in hits
            /\ \A m \in hits : Ahead(after.selected) <= Ahead(m)

\* The query A is typed with the last of four entries selected: the names a
\* and ab match, and the search wraps to a.
C22_Witness ==
  /\ SearchTyped /\ input_mode.buffer = <<"A">>
  /\ Len(entries) = 4 /\ selected = 3
  /\ Matching(input_mode.buffer) = {1, 2}
  /\ handle_key_event(App, "Enter", {}).app.selected = 1


C24_SearchRepeatsCyclically ==
  (pc = "poll" /\ input_mode.mode = "Normal") =>
    LET next == handle_key_event(App, "n", {}).app
        prev == handle_key_event(App, "N", {}).app
        N == Len(entries)
    IN IF entries = <<>> \/ ~IsSome(last_search)
       THEN \A after \in {next, prev} :
              /\ after.selected = selected /\ after.last_search = last_search
              /\ after.status = IF entries = <<>> THEN <<"No entries to search">>
                                ELSE <<"No previous search">>
       ELSE LET hits == Matching(Unwrap(last_search))
            IN /\ next.last_search = last_search /\ prev.last_search = last_search
               /\ IF hits = {} THEN next.selected = selected /\ prev.selected = selected
                  ELSE /\ next.selected \in hits /\ prev.selected \in hits
                       /\ \A m \in hits :
                            /\ (Ahead(next.selected) - 1) % N <= (Ahead(m) - 1) % N
                            /\ (Behind(prev.selected) - 1) % N <= (Behind(m) - 1) % N

\* The query b is remembered and ab, the third of four entries, is selected:
\* n goes on to B, N goes back round the start of the list to B; and from B,
\* the last entry, n goes round the end of the list to ab.
C24_Witness ==
  /\ pc = "poll" /\ input_mode.mode = "Normal"
  /\ last_search = Some(<<"b">>) /\ Len(entries) = 4 /\ selected = 2
  /\ Matching(<<"b">>) = {2, 3}
  /\ handle_key_event(App, "n", {}).app.selected = 3
  /\ handle_key_event(App, "N", {}).app.selected = 3
  /\ handle_key_event(handle_key_event(App, "n", {}).app, "n", {}).app.selected = 2


\* ------------------------------------------------------------------ properties of the dispatcher

\* A step that issues requests leaves the channel alone; a step that adds an
\* event to the channel adds one, with the path and token of a request that it
\* takes off the pool; no other step touches the pool.
OneEventPerRequest ==
  \/ tasks' = tasks /\ (fs_rx' = fs_rx \/ fs_rx' = Tail(fs_rx))
  \/ tasks \subseteq tasks' /\ tasks' # tasks /\ fs_rx' = fs_rx
  \/ \E t \in tasks :
       /\ tasks' = tasks \ {t}
       /\ Len(fs_rx') = Len(fs_rx) + 1
       /\ SubSeq(fs_rx', 1, Len(fs_rx)) = fs_rx
       /\ fs_rx'[Len(fs_rx')].path = t.path
       /\ fs_rx'[Len(fs_rx')].token = t.token

\* No request is answered twice, or answered while it is still in the pool.
NoSecondEvent ==
  /\ \A i, j \in 1..Len(fs_rx) : fs_rx[i].token = fs_rx[j].token => i = j
  /\ \A t \in tasks : \A i \in 1..Len(fs_rx) : fs_rx[i].token # t.token

\* C25: each scan request yields exactly one DirectoryLoaded event, with the
\* path and token of the request, whether the read succeeds or fails; issuing
\* does not wait for it.  With workers and the loop scheduled fairly, a
\* pending scan is resolved (pending_token none, is_loading false) unless it
\* is superseded or the user quits.
C25_OneEventAndResolved ==
  /\ []NoSecondEvent
  /\ [][OneEventPerRequest]_vars
  /\ \A t \in 0..(MaxToken - 1) :
       (pending_token = Some(t)) ~>
         \/ pending_token = None /\ ~is_loading
         \/ IsSome(pending_token) /\ pending_token # Some(t)
         \/ pc = "done"

\* A scan whose read the OS refused has been resolved: the event that was
\* applied last carries an error.
C25_Witness ==
  /\ pending_token = None /\ ~is_loading
  /\ IsSome(entries_from) /\ ~Unwrap(entries_from).result.ok
  /\ Unwrap(entries_from).token > 0


\* ------------------------------------------------------------------ properties of the control thread

\* A tree that holds the root directory and nothing else.
BareDisk == [p \in {<<>>} |-> DirNode]

\* What the handler leaves, apart from the disk.
OffDisk(a) == [a EXCEPT !.disk = BareDisk]

\* C26: the control thread makes no filesystem call of its own while it
\* handles a key event or a scan result: the handler leaves the disk as it
\* is, and leaves the same state whatever the disk holds, so that a call that
\* hangs can only hang a worker.
C26_ControlThreadOffDisk ==
  /\ pc = "poll" =>
       \A key \in KeysOf({"j", "k", "G", "r", ":"}, {}, DeleteLines) :
         LET after == handle_key_event(App, key, {}).app
         IN /\ after.disk = disk
            /\ OffDisk(handle_key_event(OffDisk(App), key, {}).app) = OffDisk(after)
  /\ (pc = "drain" /\ fs_rx # <<>>) =>
       LET after == handle_fs_event(App, Head(fs_rx))
       IN /\ after.disk = disk
          /\ OffDisk(handle_fs_event(OffDisk(App), Head(fs_rx))) = OffDisk(after)


\* ------------------------------------------------------------------ properties of refresh

\* A refresh is about to be asked for: r in Normal mode, or Enter on the
\* command line refresh.
RefreshKey ==
  IF input_mode.mode = "Normal" THEN Some("r")
  ELSE IF /\ input_mode.mode = "Command"
          /\ trim(input_mode.buffer) = kw_refresh
  THEN Some("Enter") ELSE None

\* The refresh issues a scan of current_dir under a new token and keeps
\* entries, selected and current_dir; j then moves in the entries kept.
RefreshKeeps ==
  (pc = "poll" /\ IsSome(RefreshKey)) =>
    LET after == handle_key_event(App, Unwrap(RefreshKey), {}).app
        moved == handle_key_event(after, "j", {}).app
    IN /\ after.entries = entries
       /\ after.selected = selected
       /\ after.current_dir = current_dir
       /\ after.pending_token = Some(next_token)
       /\ after.tasks = tasks \cup {[path |-> current_dir, token |-> next_token]}
       /\ after.input_mode = Normal
       /\ moved.entries = entries
       /\ entries # <<>> => moved.selected = (selected + 1) % Len(entries)

\* While a scan is pending, entries changes only when the event with the
\* pending token is accepted, or when a key handler issues another scan.
KeptUntilAccepted ==
  (IsSome(pending_token) /\ entries' # entries) =>
    \/ DrainStep /\ Some(Head(fs_rx).token) = pending_token /\ pending_token' = None
    \/ pc = "poll" /\ IsSome(pending_token') /\ pending_token' # pending_token

\* C27: a refresh, by the key r or by the command refresh, issues a new scan
\* of current_dir and leaves entries, selected and current_dir as they are;
\* the old entries stay, and can be moved in, until the result with the token
\* of the refresh is accepted.
C27_RefreshKeepsEntries == []RefreshKeeps /\ [][KeptUntilAccepted]_vars

\* The command refresh has run on a list of entries, and its scan is pending.
C27_Witness ==
  /\ status = <<"Refresh requested">>
  /\ entries # <<>> /\ IsSome(pending_token) /\ is_loading
  /\ \E t \in tasks : Some(t.token) = pending_token /\ t.path = current_dir


\* ------------------------------------------------------------------ properties of the preview

\* C28: after every key event and every accepted scan result the preview is
\* derived from the state: the loading pane exactly while a scan is pending,
\* otherwise the empty pane exactly when entries is empty, otherwise the
\* preview built for entries[selected].
C28_PreviewDerived ==
  pc \in {"drain", "poll"} =>
    IF IsSome(pending_token) THEN preview = PreviewPane_loading
    ELSE IF entries = <<>> THEN preview = PreviewPane_empty
    ELSE /\ preview = update_preview(App).preview
         /\ preview \notin {PreviewPane_loading, PreviewPane_empty}


\* ------------------------------------------------------------------ properties of read_directory

\* A name that read_dir delivers and that is gone when its metadata is read.
GoneName == <<"z", "z">>

\* Where name was delivered.
DeliveredAt(order, name) == CHOOSE i \in 1..Len(order) : order[i] = name

\* listing is what the claim asks of read_directory(dir) for this delivery.
Listed(dir, order, listing) ==
  /\ Len(listing) = Cardinality(children(disk, dir))
  /\ {e.name : e \in {listing[i] : i \in 1..Len(listing)}} = children(disk, dir)
  /\ \A i \in 1..Len(listing) : listing[i].is_dir = disk[join(dir, listing[i].name)].is_dir
  /\ \A i, j \in 1..Len(listing) :
       i < j =>
         LET a == listing[i]
             b == listing[j]
         IN /\ b.is_dir => a.is_dir
            /\ a.is_dir = b.is_dir =>
                 /\ ~str_lt(to_lowercase(b.name), to_lowercase(a.name))
                 /\ to_lowercase(a.name) = to_lowercase(b.name) =>
                      DeliveredAt(order, a.name) < DeliveredAt(order, b.name)

\* C29: read_directory returns exactly the children whose metadata can be
\* read, a child that cannot be stat'ed being skipped without failing the
\* scan, directories first and then by lowercased name, children of one kind
\* whose lowercased names are equal in the order of delivery.
C29_ListingSorted ==
  tasks # {} =>
    \A dir \in {p \in DOMAIN disk : disk[p].is_dir} :
      \A order \in orders_of(children(disk, dir) \cup {GoneName}) :
        LET r == read_directory(disk, dir, order)
        IN r.ok /\ Listed(dir, order, r.val)

\* A scan is to run while directory c holds the files A and a, and the start
\* directory a directory and files: read_dir delivering [B, c, a] there yields
\* [c, a, B], and the order of A and a in c is the order of their delivery.
C29_Witness ==
  /\ tasks # {}
  /\ children(disk, << <<"c">> >>) = {<<"A">>, <<"a">>}
  /\ ~disk[<< <<"c">>, <<"a">> >>].is_dir
  /\ read_directory(disk, <<>>, << <<"B">>, <<"c">>, <<"a">> >>).val
       = << FileEntry(<<"c">>, TRUE), FileEntry(<<"a">>, FALSE), FileEntry(<<"B">>, FALSE) >>
  /\ read_directory(disk, << <<"c">> >>, << <<"a">>, GoneName, <<"A">> >>).val
       = << FileEntry(<<"a">>, FALSE), FileEntry(<<"A">>, FALSE) >>
  /\ read_directory(disk, << <<"c">> >>, << <<"A">>, <<"a">> >>).val
       = << FileEntry(<<"A">>, FALSE), FileEntry(<<"a">>, FALSE) >>


\* ------------------------------------------------------------------ properties of directory changes

\* The program after the user has pressed keys, one after the other.
RECURSIVE Typing(_, _)
Typing(a, keys) ==
  IF keys = <<>> THEN a
  ELSE Typing(handle_key_event(a, Head(keys), {}).app, Tail(keys))

\* The command lines "cd c" and "cd ..".
CdLines == { <<"c", "d", " ", "c">>, <<"c", "d", " ", ".", ".">> }

\* Where the cd of line leads: the typed path from current_dir, resolved.
CdTarget(line) == canonicalize(disk, current_dir \o components(SubSeq(line, 4, Len(line))))

\* n and N on a: no previous search is found; the report is that of an empty
\* list while a lists nothing.
NoPreviousSearch(a) ==
  \A key \in {"n", "N"} :
    LET s == handle_key_event(a, key, {}).app
    IN /\ s.selected = a.selected
       /\ s.last_search = None
       /\ s.status = IF a.entries = <<>> THEN <<"No entries to search">>
                     ELSE <<"No previous search">>

\* after is the program in target with nothing listed, its scan issued and
\* awaited and no search remembered, before and after the listing arrives.
ChangedTo(after, target) ==
  /\ after.current_dir = target
  /\ after.entries = <<>> /\ after.selected = 0
  /\ after.next_token = next_token + 1
  /\ after.pending_token = Some(next_token)
  /\ after.tasks = tasks \cup {[path |-> target, token |-> next_token]}
  /\ after.last_search = None
  /\ NoPreviousSearch(after)
  /\ \A order \in delivery_orders(disk, target) :
       NoPreviousSearch(handle_fs_event(after,
         [path |-> target, token |-> next_token,
          result |-> read_directory(disk, target, order)]))

\* after is where the program was, nothing issued.
StayedIn(after) ==
  /\ after.current_dir = current_dir
  /\ after.entries = entries /\ after.selected = selected
  /\ after.next_token = next_token
  /\ after.pending_token = pending_token
  /\ after.tasks = tasks
  /\ after.last_search = last_search

PreviewBuilt ==
  /\ ~is_loading /\ IsSome(selected_entry(App))
  /\ preview \notin {PreviewPane_loading, PreviewPane_empty, PreviewPane_error}

\* The bytes of the selected file that a read of at most PREVIEW_MAX_BYTES gives.
BytesRead ==
  LET data == disk[Unwrap(selected_path(App))].data
  IN IF Len(data) <= PREVIEW_MAX_BYTES THEN data ELSE SubSeq(data, 1, PREVIEW_MAX_BYTES)

\* The lines bytes contain: one starts at the first byte and behind each "\n"
\* that a byte follows.
LinesIn(bytes) ==
  Cardinality({i \in 1..Len(bytes) : i = 1 \/ bytes[i - 1] = "\n"})

\* The pane ends with the truncation marker.
Truncated == "more" \in DOMAIN preview /\ preview.more

\* The pane of a directory with n children: min(n, 12) rows, the marker iff
\* n > 12, the empty message iff n = 0.
DirectoryBounded ==
  LET n == Cardinality(children(disk, Unwrap(selected_path(App))))
  IN /\ Cardinality(preview.rows) = IF n < PREVIEW_DIR_ENTRIES THEN n ELSE PREVIEW_DIR_ENTRIES
     /\ \A row \in preview.rows : row[2] \in children(disk, Unwrap(selected_path(App)))
     /\ Truncated <=> n > PREVIEW_DIR_ENTRIES
     /\ (preview.body = "Directory is empty") <=> n = 0

\* The pane of a file shows nothing from behind the first PREVIEW_MAX_BYTES
\* bytes and at most PREVIEW_MAX_LINES lines; a file of zero bytes gives the
\* empty-file message, and no other file does.
FileBounded ==
  /\ preview.body \in {"<empty file>", "text", "Non-text file"}
  /\ (preview.body = "<empty file>") <=> disk[Unwrap(selected_path(App))].data = <<>>
  /\ preview.body = "text" =>
       /\ preview.of = BytesRead /\ Len(preview.of) <= PREVIEW_MAX_BYTES
       /\ preview.lines <= PREVIEW_MAX_LINES
       /\ preview.lines = IF LinesIn(BytesRead) < PREVIEW_MAX_LINES THEN LinesIn(BytesRead)
                          ELSE PREVIEW_MAX_LINES

\* C31 as stated: the preview of a directory with n children lists min(n, 12)
\* rows, with the truncation marker iff n > 12 and the empty message iff
\* n = 0; the preview of a file reads at most 8192 bytes, renders at most 80
\* lines, ends with the truncation marker iff the bytes read contain more than
\* 80 lines, and is the empty-file message for a file of zero bytes.
C31_PreviewBoundedAnyFile ==
  PreviewBuilt =>
    IF Unwrap(selected_entry(App)).is_dir THEN DirectoryBounded
    ELSE /\ FileBounded
         /\ Truncated <=> LinesIn(BytesRead) > PREVIEW_MAX_LINES

\* C31, amended: the same, the truncation marker of a file being appended iff
\* the bytes read are text and contain more than 80 lines; bytes that are not
\* text give the label of their type, without lines and without marker.
C31_PreviewBounded ==
  PreviewBuilt =>
    IF Unwrap(selected_entry(App)).is_dir THEN DirectoryBounded
    ELSE /\ FileBounded
         /\ Truncated <=> (is_text_data(BytesRead) /\ LinesIn(BytesRead) > PREVIEW_MAX_LINES)
         /\ (preview.body = "Non-text file") <=>
              (BytesRead # <<>> /\ ~is_text_data(BytesRead))

\* The file of more than 8192 bytes is selected and its pane ends with the
\* marker: the bytes read hold more than 80 lines.
C31_Witness ==
  /\ PreviewBuilt /\ ~Unwrap(selected_entry(App)).is_dir
  /\ Len(disk[Unwrap(selected_path(App))].data) > PREVIEW_MAX_BYTES
  /\ preview.body = "text" /\ preview.more /\ preview.lines = PREVIEW_MAX_LINES


\* ------------------------------------------------------------------ properties of the jumps

\* The digits the user types ahead of a jump: none, 0, 1, 2, 3, 9 and 10.
JumpPrefixes ==
  {<<>>, <<"0">>, <<"1">>, <<"2">>, <<"3">>, <<"9">>, <<"1", "0">>}

\* The index a jump with prefix count selects on a list of n entries, last
\* telling where it goes without a prefix.
JumpTarget(count, n, last) ==
  IF n = 0 THEN 0
  ELSE IF IsSome(count)
  THEN LET c == IF Unwrap(count) < 1 THEN 1 ELSE Unwrap(count)
       IN IF c - 1 < n - 1 THEN c - 1 ELSE n - 1
  ELSE IF last THEN n - 1 ELSE 0

\* C32: on N > 0 entries gg with prefix c selects min(max(c, 1) - 1, N - 1)
\* and without a prefix 0, G with prefix c selects the same index and without
\* a prefix N - 1; both consume the prefix; on an empty list both leave
\* selected at 0.
C32_JumpsClamped ==
  (pc = "poll" /\ input_mode.mode = "Normal" /\ ~awaiting_g) =>
    \A prefix \in JumpPrefixes :
      LET ahead == Typing(App, prefix)
          count == ahead.pending_count
          n == Len(entries)
          gg == Typing(ahead, <<"g", "g">>)
          G == Typing(ahead, <<"G">>)
      IN /\ prefix # <<>> => IsSome(count)
         /\ (prefix = <<>> /\ pending_count = None) => count = None
         /\ gg.selected = JumpTarget(count, n, FALSE)
         /\ G.selected = JumpTarget(count, n, TRUE)
         /\ gg.pending_count = None /\ G.pending_count = None
         /\ gg.entries = entries /\ G.entries = entries

\* Three entries are listed and the first is selected: 2gg selects the
\* second, 9gg and G the third, 0G the first.
C32_Witness ==
  /\ pc = "poll" /\ input_mode.mode = "Normal" /\ ~awaiting_g
  /\ Len(entries) = 3 /\ selected = 0 /\ pending_count = None
  /\ Typing(App, <<"2", "g", "g">>).selected = 1
  /\ Typing(App, <<"9", "g", "g">>).selected = 2
  /\ Typing(App, <<"G">>).selected = 2
  /\ Typing(App, <<"0", "G">>).selected = 0


\* ------------------------------------------------------------------ properties of the loading flag

LoadingIffPending == is_loading <=> IsSome(pending_token)

\* A step that issues a scan leaves it pending and the flag set; a step that
\* takes the awaited result off the channel leaves nothing pending and the
\* flag clear; a step that takes another result off the channel leaves both
\* as they were.
LoadingFollowsScans ==
  /\ next_token' # next_token =>
       is_loading' /\ pending_token' = Some(next_token' - 1)
  /\ DrainStep =>
       IF Some(Head(fs_rx).token) = pending_token
       THEN pending_token' = None /\ ~is_loading'
       ELSE pending_token' = pending_token /\ is_loading' = is_loading

\* C33: is_loading is true iff pending_token is Some, in every state: issuing
\* a scan sets both, accepting the matching result clears both, discarding a
\* stale result changes neither.
C33_LoadingIffPending == []LoadingIffPending /\ [][LoadingFollowsScans]_vars

\* The result of a superseded scan is at the head of the channel while a later
\* scan is awaited: it is discarded, and the program goes on loading.
C33_Witness ==
  /\ pc = "drain" /\ fs_rx # <<>>
  /\ IsSome(pending_token) /\ Some(Head(fs_rx).token) # pending_token
  /\ is_loading
  /\ handle_fs_event(App, Head(fs_rx)) = App


\* ------------------------------------------------------------------ properties of the completion message

\* a after the result of its scan token has been taken off the channel, the
\* read delivering in order.
Answered(a, token, order) ==
  LET t == CHOOSE t \in a.tasks : t.token = token
  IN handle_fs_event(a, [path |-> t.path, token |-> token,
                         result |-> read_directory(a.disk, t.path, order)])

\* The same for each order of delivery.
Answers(a, token) ==
  LET t == CHOOSE t \in a.tasks : t.token = token
  IN {Answered(a, token, order) : order \in delivery_orders(a.disk, t.path)}

\* The command line is run; it records a completion message and issues its
\* scan.  The message is not the status before the result of that scan is
\* accepted, and is the status when it is.
MessageWithOwnScan(op) ==
  LET message == Unwrap(op.last_action_message)
  IN /\ op.status # message
     /\ \A own \in Answers(op, next_token) :
          /\ own.status = message
          /\ own.last_action_message = None

\* A later refresh, enter_selection or open_parent supersedes that scan: the
\* message is not shown when the result of the later scan is accepted.
MessageNotWithLaterScan(op) ==
  LET message == Unwrap(op.last_action_message)
  IN \A key \in {"r", "l", "h"} :
       LET later == handle_key_event(op, key, {}).app
       IN later.next_token = op.next_token + 1 =>
            /\ later.status # message
            /\ \A stale \in Answers(later, next_token) :
                 /\ stale.status # message
                 /\ \A fresh \in Answers(stale, op.next_token) :
                      fresh.status # message

\* The Enter that runs the command line records a message with its scan.
RecordsMessage ==
  /\ pc = "poll" /\ input_mode.mode = "Command"
  /\ LET op == handle_key_event(App, "Enter", {}).app
     IN /\ IsSome(op.last_action_message)
        /\ op.next_token = next_token + 1

\* C34: the completion message an operation records with its rescan becomes
\* the status only when the result of that scan is accepted; when a later
\* refresh, enter_selection or open_parent supersedes the scan, the message
\* is not shown when the result of the later scan is accepted.
C34_MessageOnlyWithItsScan ==
  RecordsMessage =>
    LET op == handle_key_event(App, "Enter", {}).app
    IN MessageWithOwnScan(op) /\ MessageNotWithLaterScan(op)

\* The part about the operation's own scan.
MessageWithItsScan ==
  RecordsMessage => MessageWithOwnScan(handle_key_event(App, "Enter", {}).app)



\* ------------------------------------------------------------------ properties of the g prefix

\* The keys of Normal mode other than g and the quitting q.
NotGKeys == (ModalKeys \cup SpecialKeys \cup {"0", "5"}) \ {"g"}

\* In Normal mode each key of keys resets awaiting_g, a g sets it exactly
\* when it was not set, and a g after a key of keys only starts a jump: it
\* moves nothing and consumes no count.  Outside Normal mode awaiting_g is
\* not set.
ConsecutiveG(keys) ==
  /\ input_mode.mode # "Normal" => ~awaiting_g
  /\ (pc = "poll" /\ input_mode.mode = "Normal") =>
       /\ handle_key_event(App, "g", {}).app.awaiting_g = ~awaiting_g
       /\ \A key \in keys :
            LET mid == handle_key_event(App, key, {}).app
                lone == handle_key_event(mid, "g", {}).app
            IN /\ ~mid.awaiting_g
               /\ mid.input_mode.mode = "Normal" =>
                    /\ lone.awaiting_g
                    /\ lone.selected = mid.selected
                    /\ lone.pending_count = mid.pending_count

\* C35: the jump fires only on two consecutive g presses in Normal mode:
\* awaiting_g is set only directly after a single g, and every other key
\* handled in Normal mode, the digits included, resets it, so that a later
\* lone g does not complete a jump started before that key.
C35_JumpOnlyOnConsecutiveG == ConsecutiveG(NotGKeys)

\* The same with the digits left out.
NonDigitResetsG == ConsecutiveG({key \in NotGKeys : ~is_ascii_digit(key)})



\* ------------------------------------------------------------------ properties of Confirm mode

\* Command lines the user may run: delete and its alias rm, bare, padded and
\* with an argument, and lines that are no delete.
ConfirmLines ==
  { <<"d", "e", "l", "e", "t", "e">>,
    <<"r", "m">>,
    <<" ", "r", "m", " ">>,
    <<"r", "m", " ", "a">>,
    <<"d", "e", "l">>,
    <<"r", "e", "m", "o", "v", "e">>,
    <<"y">>,
    <<"p", "w", "d">>,
    <<"c", "d", " ", "c">> }

\* line runs the delete command.
IsDelete(line) == resolve_command_alias(split_command(trim(line))[1]) = kw_delete

\* The path carried is current_dir joined with the name of the entry carried.
ConfirmCarries ==
  input_mode.mode = "Confirm" =>
    input_mode.action.path = join(current_dir, input_mode.action.entry.name)

\* From Normal mode a command line leads to Confirm mode exactly when it is a
\* delete and an entry is selected, and then the selected entry is carried;
\* no key of Normal or Search mode leads there, and in Command mode only Enter.
ConfirmFrom ==
  (pc = "poll" /\ input_mode.mode # "Confirm") =>
    /\ input_mode.mode = "Normal" =>
         \A line \in ConfirmLines :
           LET run == Typing(App, <<":">> \o line \o <<"Enter">>)
           IN /\ run.input_mode.mode = "Confirm"
                   <=> (IsDelete(line) /\ IsSome(selected_entry(App)))
              /\ run.input_mode.mode = "Confirm" =>
                   /\ run.input_mode.action.entry = Unwrap(selected_entry(App))
                   /\ run.current_dir = current_dir
    /\ \A key \in NotGKeys \cup ConfirmKeys \cup {"g", "q"} :
         handle_key_event(App, key, {}).app.input_mode.mode = "Confirm" =>
           /\ input_mode.mode = "Command" /\ key = "Enter"
           /\ IsDelete(input_mode.buffer)
           /\ IsSome(selected_entry(App))

\* A step that enters Confirm mode leaves Command mode, whose buffer holds a
\* delete, with an entry selected; a step within Confirm mode keeps
\* current_dir.
ConfirmSteps ==
  /\ (input_mode.mode # "Confirm" /\ input_mode'.mode = "Confirm") =>
       /\ input_mode.mode = "Command"
       /\ IsDelete(input_mode.buffer)
       /\ IsSome(selected_entry(App))
       /\ current_dir' = current_dir
  /\ (input_mode.mode = "Confirm" /\ input_mode'.mode = "Confirm") =>
       /\ current_dir' = current_dir
       /\ input_mode' = input_mode

\* C36: Confirm mode is entered only by the delete command, or an alias of
\* it, run from Command mode with an entry selected; while Confirm mode lasts
\* current_dir does not change, and the path carried is current_dir joined
\* with the name of the entry carried.
C36_ConfirmOnlyByDelete ==
  [](ConfirmCarries /\ ConfirmFrom) /\ [][ConfirmSteps]_vars

\* Confirm mode in the directory c, a scan of it still to be answered.
C36_Witness ==
  /\ input_mode.mode = "Confirm"
  /\ current_dir = << <<"c">> >>
  /\ input_mode.action.path = << <<"c">>, <<"A">> >>
  /\ IsSome(pending_token)

====
